---- MODULE Spec2Model ----
(***************************************************************************)
(* The A34 refused-data dashboard (src/pages/A34_Refused_Data.py) as a     *)
(* state machine.  One script run ("pass") reads the widget state, filters *)
(* the loaded table, branches on which of the three filters are active and *)
(* hands a list of elements (metrics, notices, charts, the download) to    *)
(* the page.  A state is the loaded table, the session state (the three    *)
(* multiselects and the clear flag) and the elements of the last pass.     *)
(***************************************************************************)
EXTENDS Integers, Sequences, FiniteSets, TLC

----------------------------------------------------------------------------
(* Bounds of the model *)

\* records of a free ("narrow") table
MaxLen == 2
\* countries of a patterned ("wide") table: more than the top-10 cut keeps
NCountries == 11
\* countries of a wide table that have a second record
NExtra == 3
\* values one multiselect holds at a time
MaxSelected == 2

(* Program constants *)

\* .head(10) of the top-countries cuts
TopTen == 10
\* .head(5) of the year-only treemap
TopFive == 5

----------------------------------------------------------------------------
(* Values of the table's columns *)

Years == {2019, 2020}
Grounds == {1, 2}
PERM == "Permanent Resident"
TEMP == "Temporary Resident"
Residents == {PERM, TEMP}

Rec(c, y, g, r, n) ==
    [country |-> c, year |-> y, inadmissibility_grounds |-> g,
     resident |-> r, count |-> n]

\* the records a narrow table is made of: two countries, both years, both
\* grounds, both resident statuses, zero and positive counts
SampleRecords ==
    { Rec(1, 2019, 1, PERM, 0), Rec(1, 2020, 2, TEMP, 2),
      Rec(2, 2019, 1, TEMP, 0), Rec(2, 2019, 2, PERM, 1) }

NarrowData == UNION { [1..n -> SampleRecords] : n \in 1..MaxLen }

\* count of the first record of country c in the wide table of pattern p:
\* ascending in the country, descending, or ascending with the four smallest
\* tied in pairs
WideCount(p, c) ==
    CASE p = 1 -> c
      [] p = 2 -> NCountries + 1 - c
      [] OTHER -> IF c <= 4 THEN (c + 1) \div 2 ELSE c - 2

WideRecord(p, i) ==
    IF i <= NCountries
    THEN Rec(i, 2019 + (i % 2), 1 + ((i \div 2) % 2),
             IF i % 3 = 0 THEN TEMP ELSE PERM, WideCount(p, i))
    ELSE LET c == i - NCountries
         IN  Rec(c, 2019 + ((c + 1) % 2), 1 + (c % 2),
                 IF c % 2 = 0 THEN PERM ELSE TEMP, (p + c) % 3)

WideData == { [i \in 1..(NCountries + NExtra) |-> WideRecord(p, i)] : p \in 1..3 }

Datasets == NarrowData \cup WideData

----------------------------------------------------------------------------
(* pandas: the operations the script uses *)

Min(a, b) == IF a < b THEN a ELSE b

RECURSIVE SumCount(_)
\* data['count'].sum()
SumCount(data) ==
    IF data = <<>> THEN 0 ELSE Head(data).count + SumCount(Tail(data))

RECURSIVE SortedKeys(_)
\* the keys of a groupby come out in ascending order
SortedKeys(S) ==
    IF S = {} THEN <<>>
    ELSE LET m == CHOOSE x \in S : \A y \in S : x <= y
         IN  <<m>> \o SortedKeys(S \ {m})

Column(data, col) == { data[i][col] : i \in 1..Len(data) }

\* NaN, the value of an empty cell: the litigation sheet has records without a
\* "Country of Citizenship", which the page drops from the options of its
\* multiselect (.dropna()); groupby leaves the records of a missing key out
Missing == 0

\* data[data[col].isin(vals)]
IsIn(data, col, vals) == SelectSeq(data, LAMBDA r : r[col] \in vals)

\* data.groupby(col)['count'].sum().reset_index(): <<key, sum>> by ascending key
GroupBySum(data, col) ==
    LET keys == SortedKeys(Column(data, col) \ { Missing })
    IN  [i \in 1..Len(keys) |->
            <<keys[i], SumCount(SelectSeq(data, LAMBDA r : r[col] = keys[i]))>>]

PairLess(a, b) == a[1] < b[1] \/ (a[1] = b[1] /\ a[2] < b[2])

RECURSIVE SortedPairs(_)
SortedPairs(S) ==
    IF S = {} THEN <<>>
    ELSE LET m == CHOOSE x \in S : \A y \in S \ {x} : PairLess(x, y)
         IN  <<m>> \o SortedPairs(S \ {m})

\* data.groupby([c1, c2])['count'].sum().reset_index(): <<k1, k2, sum>> for the
\* combinations that occur, in ascending order of (k1, k2)
GroupBySum2(data, c1, c2) ==
    LET keys == SortedPairs({ k \in { <<data[i][c1], data[i][c2]>> : i \in 1..Len(data) } :
                                  k[1] # Missing /\ k[2] # Missing })
    IN  [i \in 1..Len(keys) |->
            <<keys[i][1], keys[i][2],
              SumCount(SelectSeq(data,
                  LAMBDA r : r[c1] = keys[i][1] /\ r[c2] = keys[i][2]))>>]

RECURSIVE DescOrders(_)
\* sort_values('count', ascending=False): the default sort is not stable, so
\* rows of equal count come out in an order the build decides; every
\* descending arrangement of the rows is a possible result
DescOrders(S) ==
    IF S = {} THEN { <<>> }
    ELSE UNION { { <<x>> \o t : t \in DescOrders(S \ {x}) } :
                 x \in { y \in S : \A z \in S : z[2] <= y[2] } }

SortValuesDesc(agg) == DescOrders({ agg[i] : i \in 1..Len(agg) })

\* .head(n)
HeadN(s, n) == SubSeq(s, 1, Min(n, Len(s)))

----------------------------------------------------------------------------
(* What a pass hands to the page: an element has a type (metric, info,     *)
(* warning, success, subheader, bar, line, treemap, slope, download), the  *)
(* grouping or the name it is about, and its data (always a sequence).     *)

El(type, by, data) == [type |-> type, by |-> by, data |-> data]

\* data.groupby('resident')['count'].sum().reset_index()
ResidentData(data) ==
    LET keys == IF PERM \in Column(data, "resident")
                THEN (IF TEMP \in Column(data, "resident") THEN <<PERM, TEMP>> ELSE <<PERM>>)
                ELSE (IF TEMP \in Column(data, "resident") THEN <<TEMP>> ELSE <<>>)
    IN  [i \in 1..Len(keys) |->
            <<keys[i], SumCount(SelectSeq(data, LAMBDA r : r.resident = keys[i]))>>]

\* create_resident_slope_graph without the test of two statuses: a status
\* with no record is drawn as 0
create_resident_slope_graph_NoGuard(data) ==
    LET resident_data == ResidentData(data)
        ValueOf(status) ==
            IF \E i \in 1..Len(resident_data) : resident_data[i][1] = status
            THEN SelectSeq(resident_data, LAMBDA row : row[1] = status)[1][2]
            ELSE 0
    IN  << El("slope", "resident", << ValueOf(PERM), ValueOf(TEMP) >>) >>

\* create_resident_slope_graph followed by "if slope_fig: st.plotly_chart"
create_resident_slope_graph(data) ==
    LET resident_data == ResidentData(data)
        ValueOf(status) ==
            IF \E i \in 1..Len(resident_data) : resident_data[i][1] = status
            THEN SelectSeq(resident_data, LAMBDA row : row[1] = status)[1][2]
            ELSE 0
    IN  IF Len(resident_data) < 2
        THEN << El("warning", "resident comparison", <<>>) >>
        ELSE << El("slope", "resident", << ValueOf(PERM), ValueOf(TEMP) >>) >>

\* filtered_df with the masks joined by "or" in the place of "and"
filtered_df_AnyMask(d, selected_countries, selected_years, selected_inadmissibility) ==
    SelectSeq(d, LAMBDA r :
        \/ (selected_countries = {} /\ selected_years = {}
               /\ selected_inadmissibility = {})
        \/ r.country \in selected_countries
        \/ r.year \in selected_years
        \/ r.inadmissibility_grounds \in selected_inadmissibility)

\* the mask of the three multiselects; an empty selection leaves the mask alone
filtered_df(d, selected_countries, selected_years, selected_inadmissibility) ==
    SelectSeq(d, LAMBDA r :
        /\ (selected_countries # {} => r.country \in selected_countries)
        /\ (selected_years # {} => r.year \in selected_years)
        /\ (selected_inadmissibility # {} =>
                r.inadmissibility_grounds \in selected_inadmissibility))

\* the filter status notice
FilterStatus(sc, sy, sg) ==
    IF sc = {} /\ sy = {} /\ sg = {}
    THEN El("info", "no filters", <<>>)
    ELSE El("info", "active filters",
            (IF sc # {} THEN << <<"Countries", Cardinality(sc)>> >> ELSE <<>>) \o
            (IF sy # {} THEN << <<"Years", Cardinality(sy)>> >> ELSE <<>>) \o
            (IF sg # {} THEN << <<"Inadmissibility Grounds", Cardinality(sg)>> >> ELSE <<>>))

\* the four key metrics over the filtered table; the average is kept as the
\* pair (total, number of countries) it is the quotient of
KeyMetrics(f) ==
    LET ys == SortedKeys(Column(f, "year"))
    IN  << El("metric", "Total Cases", << SumCount(f) >>),
           El("metric", "Countries", << Cardinality(Column(f, "country")) >>),
           El("metric", "Year Range", << ys[1], ys[Len(ys)] >>),
           El("metric", "Avg Cases/Country",
              << SumCount(f), Len(GroupBySum(f, "country")) >>) >>

\* Branch with "country selected" taken to mean exactly one country
Branch_CountryIsOne(sc, sy, sg) ==
    LET c == Cardinality(sc) = 1
        y == sy # {}
        g == sg # {}
    IN  IF ~(sc # {} \/ y \/ g) THEN 0
        ELSE IF y /\ c /\ g THEN 1
        ELSE IF y /\ c /\ ~g THEN 2
        ELSE IF y /\ g /\ ~c THEN 3
        ELSE IF c /\ g /\ ~y THEN 4
        ELSE IF y /\ ~c /\ ~g THEN 5
        ELSE IF c /\ ~y /\ ~g THEN 6
        ELSE IF g /\ ~y /\ ~c THEN 7
        ELSE 8

\* Branch with the test of Case 7 written without its two negations
Branch_Case7Slip(sc, sy, sg) ==
    LET c == sc # {}
        y == sy # {}
        g == sg # {}
    IN  IF ~(c \/ y \/ g) THEN 0
        ELSE IF y /\ c /\ g THEN 1
        ELSE IF y /\ c /\ ~g THEN 2
        ELSE IF y /\ g /\ ~c THEN 3
        ELSE IF c /\ g /\ ~y THEN 4
        ELSE IF y /\ ~c /\ ~g THEN 5
        ELSE IF c /\ ~y /\ ~g THEN 6
        ELSE IF g /\ y /\ c THEN 7
        ELSE 8

\* the branch the selector takes: 0 is the overview, 1..7 the named cases,
\* 8 the final else
Branch(sc, sy, sg) ==
    LET no_filters_selected == ~(sc # {} \/ sy # {} \/ sg # {})
        year_selected == Cardinality(sy) > 0
        country_selected == Cardinality(sc) > 0
        inadmissibility_selected == Cardinality(sg) > 0
    IN  IF no_filters_selected THEN 0
        ELSE IF year_selected /\ country_selected /\ inadmissibility_selected THEN 1
        ELSE IF year_selected /\ country_selected /\ ~inadmissibility_selected THEN 2
        ELSE IF year_selected /\ inadmissibility_selected /\ ~country_selected THEN 3
        ELSE IF country_selected /\ inadmissibility_selected /\ ~year_selected THEN 4
        ELSE IF year_selected /\ ~country_selected /\ ~inadmissibility_selected THEN 5
        ELSE IF country_selected /\ ~year_selected /\ ~inadmissibility_selected THEN 6
        ELSE IF inadmissibility_selected /\ ~year_selected /\ ~country_selected THEN 7
        ELSE 8

----------------------------------------------------------------------------
(* The branches of the selector.  f is filtered_df; country_sorted and     *)
(* inadmiss_sorted are the per-country and per-ground sums of the table    *)
(* the branch charts, already sorted by descending count.                  *)

\* the keys of the first n rows of a sorted aggregation
IndexOf(rows) == { rows[i][1] : i \in 1..Len(rows) }

\* Overview with the top 10 countries taken from the unsorted sums
Overview_Unsorted(d, country_sorted, inadmiss_sorted) ==
    << El("subheader", "Default Overview Charts", <<>>),
       El("bar", "inadmissibility_grounds", inadmiss_sorted),
       El("bar", "country", HeadN(GroupBySum(d, "country"), TopTen)),
       El("line", "year", GroupBySum(d, "year")),
       El("line", "year,inadmissibility_grounds",
          GroupBySum2(d, "year", "inadmissibility_grounds")) >>
    \o create_resident_slope_graph(d)

\* no filter selected: the default overview charts, all over df
Overview(d, country_sorted, inadmiss_sorted) ==
    << El("subheader", "Default Overview Charts", <<>>),
       El("bar", "inadmissibility_grounds", inadmiss_sorted),
       El("bar", "country", HeadN(country_sorted, TopTen)),
       El("line", "year", GroupBySum(d, "year")),
       El("line", "year,inadmissibility_grounds",
          GroupBySum2(d, "year", "inadmissibility_grounds")) >>
    \o create_resident_slope_graph(d)

\* Case 1 with the number of filtered rows in the place of the sum of count
Case1_RowCount(f, sc, sy) ==
    LET total_refusals == Len(f)
    IN  << El("subheader", "Complete Filter Applied", <<>>),
           El("metric", "Total Refusals", << total_refusals >>),
           El("metric", "Years", SortedKeys(sy)),
           El("metric", "Countries", HeadN(SortedKeys(sc), 3)) >>
        \o (IF total_refusals > 0
            THEN << El("success", "found", << total_refusals >>) >>
                 \o create_resident_slope_graph(f)
            ELSE << El("warning", "none found", <<>>) >>)

\* Case 1: year, country and inadmissibility ground selected
Case1(f, sc, sy) ==
    LET total_refusals == SumCount(f)
    IN  << El("subheader", "Complete Filter Applied", <<>>),
           El("metric", "Total Refusals", << total_refusals >>),
           El("metric", "Years", SortedKeys(sy)),
           El("metric", "Countries", HeadN(SortedKeys(sc), 3)) >>
        \o (IF total_refusals > 0
            THEN << El("success", "found", << total_refusals >>) >>
                 \o create_resident_slope_graph(f)
            ELSE << El("warning", "none found", <<>>) >>)

\* Case 2 with the first column only: the second chart is left out
Case2_FirstColumn(f, sc, sy, country_sorted, inadmiss_sorted) ==
    << El("subheader", "Analysis for Selected Year(s) and Country(ies)", <<>>),
       El("bar", "inadmissibility_grounds", inadmiss_sorted) >>
    \o create_resident_slope_graph(f)

\* Case 2: year and country selected
Case2(f, sc, sy, country_sorted, inadmiss_sorted) ==
    << El("subheader", "Analysis for Selected Year(s) and Country(ies)", <<>>) >>
    \o (IF inadmiss_sorted # <<>>
     THEN << El("bar", "inadmissibility_grounds", inadmiss_sorted) >>
     ELSE <<>>)
    \o (IF Cardinality(sc) > 1
        THEN << El("bar", "country", country_sorted) >>
        ELSE IF Cardinality(sy) > 1
             THEN << El("line", "year", GroupBySum(f, "year")) >>
             ELSE <<>>)
    \o create_resident_slope_graph(f)

\* Case 3 with the top 10 countries taken from the unsorted sums
Case3_Unsorted(f, sy, country_sorted) ==
    LET top_countries == HeadN(GroupBySum(f, "country"), TopTen)
    IN  << El("subheader",
               "Analysis for Selected Year(s) and Inadmissibility Ground(s)", <<>>),
           El("bar", "country", top_countries) >>
        \o (IF Cardinality(sy) > 1
            THEN << El("line", "year", GroupBySum(f, "year")) >>
            ELSE << El("bar", "country,inadmissibility_grounds",
                       HeadN(GroupBySum2(f, "country", "inadmissibility_grounds"),
                             TopTen)) >>)
        \o create_resident_slope_graph(f)

\* Case 3: year and inadmissibility ground selected
Case3(f, sy, country_sorted) ==
    LET top_countries == HeadN(country_sorted, TopTen)
        inadmiss_countries == GroupBySum2(f, "country", "inadmissibility_grounds")
    IN  << El("subheader",
               "Analysis for Selected Year(s) and Inadmissibility Ground(s)", <<>>) >>
        \o (IF top_countries # <<>>
            THEN << El("bar", "country", top_countries) >>
            ELSE <<>>)
        \o (IF Cardinality(sy) > 1
            THEN << El("line", "year", GroupBySum(f, "year")) >>
            ELSE IF inadmiss_countries # <<>>
                 THEN << El("bar", "country,inadmissibility_grounds",
                            HeadN(inadmiss_countries, TopTen)) >>
                 ELSE <<>>)
        \o create_resident_slope_graph(f)

\* Case 4: country and inadmissibility ground selected
Case4(f) ==
    LET yearly_data == GroupBySum(f, "year")
    IN  << El("subheader",
               "Yearly Trends for Selected Country(ies) and Inadmissibility Ground(s)",
               <<>>) >>
        \o (IF yearly_data # <<>>
            THEN << El("line", "year", yearly_data) >> \o create_resident_slope_graph(f)
            ELSE <<>>)

\* Case 5 with the top 5 taken from the unsorted sums
Case5_Unsorted(f, country_sorted) ==
    LET top_countries_data == HeadN(GroupBySum(f, "country"), TopFive)
        treemap_data == IsIn(f, "country", IndexOf(top_countries_data))
    IN  << El("subheader", "Top Countries and Inadmissibility Grounds for years", <<>>) >>
        \o (IF treemap_data # <<>> /\ SumCount(treemap_data) > 0
            THEN << El("treemap", "country,inadmissibility_grounds", treemap_data) >>
                 \o create_resident_slope_graph(f)
            ELSE <<>>)

\* Case 5: only the year selected
Case5(f, country_sorted) ==
    LET top_countries_data == HeadN(country_sorted, TopFive)
        treemap_data == IsIn(f, "country", IndexOf(top_countries_data))
    IN  << El("subheader", "Top Countries and Inadmissibility Grounds for years", <<>>) >>
        \o (IF treemap_data # <<>> /\ SumCount(treemap_data) > 0
            THEN << El("treemap", "country,inadmissibility_grounds", treemap_data) >>
                 \o create_resident_slope_graph(f)
            ELSE <<>>)

\* Case 6 with the treemap drawn without the test of a positive total
Case6_NoGuard(f) ==
    << El("subheader", "Analysis for countries", <<>>),
       El("line", "year", GroupBySum(f, "year")),
       El("line", "year,inadmissibility_grounds",
          GroupBySum2(f, "year", "inadmissibility_grounds")),
       El("treemap", "country,inadmissibility_grounds", f) >>
    \o create_resident_slope_graph(f)

\* Case 6: only the country selected
Case6(f) ==
    LET yearly_data == GroupBySum(f, "year")
        yearly_inadmiss == GroupBySum2(f, "year", "inadmissibility_grounds")
    IN  << El("subheader", "Analysis for countries", <<>>) >>
        \o (IF yearly_data # <<>> THEN << El("line", "year", yearly_data) >> ELSE <<>>)
        \o (IF yearly_inadmiss # <<>>
            THEN << El("line", "year,inadmissibility_grounds", yearly_inadmiss) >>
            ELSE <<>>)
        \o (IF f # <<>> /\ SumCount(f) > 0
            THEN << El("treemap", "country,inadmissibility_grounds", f) >>
            ELSE <<>>)
        \o create_resident_slope_graph(f)

\* Case 7 with the trend over every country, not the top 10
Case7_AllCountries(f, country_sorted) ==
    << El("subheader", "Analysis for inadmissibility grounds", <<>>),
       El("line", "year", GroupBySum(f, "year")),
       El("bar", "country", HeadN(country_sorted, TopTen)),
       El("line", "year,country", GroupBySum2(f, "year", "country")) >>
    \o create_resident_slope_graph(f)

\* Case 7: only the inadmissibility ground selected
Case7(f, country_sorted) ==
    LET yearly_data == GroupBySum(f, "year")
        top_countries == HeadN(country_sorted, TopTen)
        yearly_country_data == GroupBySum2(f, "year", "country")
        top_countries_for_ground == IndexOf(HeadN(country_sorted, TopTen))
        yearly_country_filtered ==
            SelectSeq(yearly_country_data, LAMBDA row : row[2] \in top_countries_for_ground)
    IN  << El("subheader", "Analysis for inadmissibility grounds", <<>>) >>
        \o (IF yearly_data # <<>> THEN << El("line", "year", yearly_data) >> ELSE <<>>)
        \o (IF top_countries # <<>> THEN << El("bar", "country", top_countries) >> ELSE <<>>)
        \o (IF yearly_country_filtered # <<>>
            THEN << El("line", "year,country", yearly_country_filtered) >>
                 \o create_resident_slope_graph(f)
            ELSE <<>>)

\* Case 8: the final else, "General Analysis"
Case8(f, sy, country_sorted) ==
    LET country_data == HeadN(country_sorted, TopTen)
        yearly_data == GroupBySum(f, "year")
    IN  << El("subheader", "General Analysis", <<>>) >>
        \o (IF country_data # <<>> THEN << El("bar", "country", country_data) >> ELSE <<>>)
        \o (IF ~(Cardinality(sy) > 0) /\ yearly_data # <<>>
            THEN << El("line", "year", yearly_data) >>
            ELSE <<>>)
        \o create_resident_slope_graph(f)

\* the visualizations of one pass: the if / elif chain over the branches
Visualizations(d, f, sc, sy, sg, country_sorted, inadmiss_sorted) ==
    CASE Branch(sc, sy, sg) = 0 -> Overview(d, country_sorted, inadmiss_sorted)
      [] Branch(sc, sy, sg) = 1 -> Case1(f, sc, sy)
      [] Branch(sc, sy, sg) = 2 -> Case2(f, sc, sy, country_sorted, inadmiss_sorted)
      [] Branch(sc, sy, sg) = 3 -> Case3(f, sy, country_sorted)
      [] Branch(sc, sy, sg) = 4 -> Case4(f)
      [] Branch(sc, sy, sg) = 5 -> Case5(f, country_sorted)
      [] Branch(sc, sy, sg) = 6 -> Case6(f)
      [] Branch(sc, sy, sg) = 7 -> Case7(f, country_sorted)
      [] OTHER -> Case8(f, sy, country_sorted)

\* Script without the st.stop() after the notice: the branch and the download
\* follow it
Script_NoStop(d, sc, sy, sg, country_sorted, inadmiss_sorted) ==
    LET f == filtered_df(d, sc, sy, sg)
    IN  IF d = <<>> THEN <<>>
        ELSE << FilterStatus(sc, sy, sg) >>
             \o (IF f = <<>>
                 THEN << El("warning", "no data matches", <<>>) >>
                 ELSE KeyMetrics(f))
             \o Visualizations(d, f, sc, sy, sg, country_sorted, inadmiss_sorted)
             \o << El("download", "filtered_df", f) >>

\* Script with the loaded table offered for download instead of filtered_df
Script_ExportLoaded(d, sc, sy, sg, country_sorted, inadmiss_sorted) ==
    LET f == filtered_df(d, sc, sy, sg)
    IN  IF d = <<>> THEN <<>>
        ELSE << FilterStatus(sc, sy, sg) >>
             \o (IF f = <<>>
                 THEN << El("warning", "no data matches", <<>>) >>
                 ELSE KeyMetrics(f)
                      \o Visualizations(d, f, sc, sy, sg, country_sorted, inadmiss_sorted)
                      \o << El("download", "filtered_df", d) >>)

\* one run of the script from the filter widgets to the download button
Script(d, sc, sy, sg, country_sorted, inadmiss_sorted) ==
    LET f == filtered_df(d, sc, sy, sg)
    IN  IF d = <<>> THEN <<>>
        ELSE << FilterStatus(sc, sy, sg) >>
             \o (IF f = <<>>
                 THEN << El("warning", "no data matches", <<>>) >>
                 ELSE KeyMetrics(f)
                      \o Visualizations(d, f, sc, sy, sg, country_sorted, inadmiss_sorted)
                      \o << El("download", "filtered_df", f) >>)

----------------------------------------------------------------------------
(* The state machine *)

VARIABLES
    df,                        \* the loaded table
    clear_filters,             \* st.session_state.clear_filters
    selected_countries,        \* the three multiselects (session state)
    selected_years,
    selected_inadmissibility,
    pc,                        \* "done": a pass has completed; "rerun": st.rerun() is pending
    out,                       \* the elements of the last completed pass
    prev,                      \* history: the summary of some earlier completed pass
    lit_df,                    \* litigation_interactive.py: df, the loaded table
    countries,                 \* its two multiselects and its year slider
    case_types,
    years,
    lit_out,                   \* the elements of its last pass
    source                     \* the data file of the page: "ok", "absent", or the
                               \* name of a column the file lacks

\* the state of the litigation page
litvars == << lit_df, countries, case_types, years, lit_out >>

vars == << df, clear_filters, selected_countries, selected_years,
           selected_inadmissibility, pc, out, prev, litvars, source >>

\* the value the year slider starts with: value=(2018, 2023)
DefaultFrom == 2018
DefaultTo == 2023

\* the litigation page is not open
LitClosed ==
    /\ lit_df = <<>>
    /\ countries = {}
    /\ case_types = {}
    /\ years = << DefaultFrom, DefaultTo >>
    /\ lit_out = <<>>

\* the columns the two tables are read by
A34Columns == { "country", "year", "inadmissibility_grounds", "resident", "count" }
LitColumns == { "country", "year", "case_type", "region", "decision", "count" }

\* the columns of the A34 table the options of the multiselects are taken
\* from, before any multiselect is drawn
OptionColumns == { "country", "year", "inadmissibility_grounds" }

\* the exception of a read of a column the table lacks
KeyError == El("error", "KeyError", <<>>)

\* the elements a pass hands over when the first of them that reads a lacking
\* column raises KeyError, reading being the positions of those that read it:
\* the elements before it, then the exception; all of them when none reads it
UpToKeyError(elements, reading) ==
    IF reading = {} THEN elements
    ELSE LET k == CHOOSE i \in reading : \A j \in reading : i <= j
         IN  Append(SubSeq(elements, 1, k - 1), KeyError)

\* the resident comparison, chart or warning: create_resident_slope_graph
\* groups by 'resident' before it does anything else
ReadsResident(e) ==
    e.type = "slope" \/ (e.type = "warning" /\ e.by = "resident comparison")

\* what a pass of the A34 page hands over, elements being what it hands over
\* of a well-formed file: load_data reports a file that is absent and returns
\* an empty table, on which the script stops; a lacking column raises
\* KeyError where it is first read, 'count' by the first metric, 'resident'
\* by the first resident comparison
A34Rendered(src, elements) ==
    CASE src = "ok" -> elements
      [] src = "absent" -> << El("error", "Data file not found", <<>>) >>
      [] src \in OptionColumns -> << KeyError >>
      [] src = "count" -> UpToKeyError(elements,
                          { i \in 1..Len(elements) : elements[i].type = "metric" })
      [] OTHER -> UpToKeyError(elements,
                    { i \in 1..Len(elements) : ReadsResident(elements[i]) })

\* what a pass of the litigation page hands over: read_excel raises for a
\* file that is absent; the columns of the three filter widgets are read by
\* the widgets, the count by the summary card, the region and the decision by
\* the first chart grouped by them
LitRendered(src, elements) ==
    CASE src = "ok" -> elements
      [] src = "absent" -> << El("error", "FileNotFoundError", <<>>) >>
      [] src \in { "country", "year", "case_type", "count" } -> << KeyError >>
      [] OTHER -> UpToKeyError(elements,
                    { i \in 1..Len(elements) : elements[i].by \in
                        { src, "country," \o src, "case_type," \o src } })

\* DefaultOf without the test of the clear flag
DefaultOf_Stored(clear, stored) == stored

\* the default of a multiselect: empty while the clear flag is set
DefaultOf(clear, stored) == IF clear THEN {} ELSE stored

\* the table the sorted aggregations of a pass are taken from
ChartTable(d, sc, sy, sg) ==
    IF Branch(sc, sy, sg) = 0 THEN d ELSE filtered_df(d, sc, sy, sg)

\* the per-country sums a pass sorts: the branches 1, 4 and 6 sort none
CountrySums(d, sc, sy, sg) ==
    IF Branch(sc, sy, sg) \in {1, 4, 6} THEN <<>>
    ELSE GroupBySum(ChartTable(d, sc, sy, sg), "country")

\* the per-ground sums a pass sorts: only the overview and Case 2 sort them
InadmissSums(d, sc, sy, sg) ==
    IF Branch(sc, sy, sg) \in {0, 2}
    THEN GroupBySum(ChartTable(d, sc, sy, sg), "inadmissibility_grounds")
    ELSE <<>>

\* RunScript with the filter applied to the loaded table in place
RunScript_FilterInPlace(sc, sy, sg) ==
    LET countries_default == DefaultOf(clear_filters, sc)
        years_default == DefaultOf(clear_filters, sy)
        inadmissibility_default == DefaultOf(clear_filters, sg)
    IN  /\ clear_filters' = FALSE
        /\ selected_countries' = countries_default
        /\ selected_years' = years_default
        /\ selected_inadmissibility' = inadmissibility_default
        /\ pc' = "done"
        /\ \E country_sorted \in SortValuesDesc(CountrySums(df, countries_default,
                                      years_default, inadmissibility_default)),
              inadmiss_sorted \in SortValuesDesc(InadmissSums(df, countries_default,
                                      years_default, inadmissibility_default)) :
                out' = Script(df, countries_default, years_default,
                              inadmissibility_default, country_sorted, inadmiss_sorted)
        /\ df' = IF filtered_df(df, countries_default, years_default,
                                inadmissibility_default) = <<>>
                 THEN df
                 ELSE filtered_df(df, countries_default, years_default,
                                  inadmissibility_default)

\* the script from the defaults on: the flag is consumed, the widgets take
\* their values, the elements are produced
RunScript(sc, sy, sg) ==
    LET countries_default == DefaultOf(clear_filters, sc)
        years_default == DefaultOf(clear_filters, sy)
        inadmissibility_default == DefaultOf(clear_filters, sg)
    IN  IF source \in OptionColumns
        THEN \* KeyError while the options are read: the flag is not reached
             /\ pc' = "done"
             /\ out' = A34Rendered(source, <<>>)
             /\ UNCHANGED << df, clear_filters, selected_countries, selected_years,
                             selected_inadmissibility >>
        ELSE /\ clear_filters' = FALSE
             /\ selected_countries' = countries_default
             /\ selected_years' = years_default
             /\ selected_inadmissibility' = inadmissibility_default
             /\ pc' = "done"
             /\ \E country_sorted \in SortValuesDesc(CountrySums(df, countries_default,
                                           years_default, inadmissibility_default)),
                   inadmiss_sorted \in SortValuesDesc(InadmissSums(df, countries_default,
                                           years_default, inadmissibility_default)) :
                     out' = A34Rendered(source,
                                Script(df, countries_default, years_default,
                                       inadmissibility_default, country_sorted,
                                       inadmiss_sorted))
             /\ UNCHANGED df

Toggle(S, x) == IF x \in S THEN S \ {x} ELSE S \cup {x}

\* the user adds or removes one country; the script reruns
ChangeCountries ==
    /\ pc = "done"
    /\ source \notin OptionColumns
    /\ \E c \in Column(df, "country") :
          /\ Cardinality(Toggle(selected_countries, c)) <= MaxSelected
          /\ RunScript(Toggle(selected_countries, c), selected_years,
                       selected_inadmissibility)

\* the user adds or removes one year
ChangeYears ==
    /\ pc = "done"
    /\ source \notin OptionColumns
    /\ \E y \in Column(df, "year") :
          /\ Cardinality(Toggle(selected_years, y)) <= MaxSelected
          /\ RunScript(selected_countries, Toggle(selected_years, y),
                       selected_inadmissibility)

\* the user adds or removes one inadmissibility ground
ChangeInadmissibility ==
    /\ pc = "done"
    /\ source \notin OptionColumns
    /\ \E g \in Column(df, "inadmissibility_grounds") :
          /\ Cardinality(Toggle(selected_inadmissibility, g)) <= MaxSelected
          /\ RunScript(selected_countries, selected_years,
                       Toggle(selected_inadmissibility, g))

\* "Clear All Filters": the flag is set and the run is abandoned for a rerun
ClearPress ==
    /\ pc = "done"
    /\ df # <<>>
    /\ clear_filters' = TRUE
    /\ pc' = "rerun"
    /\ out' = <<>>
    /\ UNCHANGED << df, selected_countries, selected_years, selected_inadmissibility >>

\* the run that st.rerun() starts
Rerun ==
    /\ pc = "rerun"
    /\ RunScript(selected_countries, selected_years, selected_inadmissibility)

Step == ChangeCountries \/ ChangeYears \/ ChangeInadmissibility \/ ClearPress \/ Rerun

Init ==
    /\ df \in Datasets
    /\ clear_filters = FALSE
    /\ selected_countries = {}
    /\ selected_years = {}
    /\ selected_inadmissibility = {}
    /\ pc = "done"
    /\ \E country_sorted \in SortValuesDesc(GroupBySum(df, "country")),
          inadmiss_sorted \in SortValuesDesc(GroupBySum(df, "inadmissibility_grounds")) :
            out = Script(df, {}, {}, {}, country_sorted, inadmiss_sorted)
    /\ prev = <<>>
    /\ LitClosed
    /\ source = "ok"

Next ==
    \/ ChangeCountries /\ UNCHANGED << prev, litvars, source >>
    \/ ChangeYears /\ UNCHANGED << prev, litvars, source >>
    \/ ChangeInadmissibility /\ UNCHANGED << prev, litvars, source >>
    \/ ClearPress /\ UNCHANGED << prev, litvars, source >>
    \/ Rerun /\ UNCHANGED << prev, litvars, source >>

Spec == Init /\ [][Next]_vars

----------------------------------------------------------------------------
(* The litigation page (src/pages/litigation_interactive.py).  A record    *)
(* has the columns "Country of Citizenship" (country), "LIT Leave Decision *)
(* Date - Year" (year), "LIT Case Type Group Desc" (case_type), "LIT       *)
(* Primary Office Regional Group Desc" (region), "LIT Leave Decision Desc" *)
(* (decision) and "LIT Litigation Count" (count).                          *)

LitRec(c, y, t, reg, dec, n) ==
    [country |-> c, year |-> y, case_type |-> t, region |-> reg,
     decision |-> dec, count |-> n]

\* the years the tables have and the slider is moved to
SliderStops == { DefaultFrom, 2020, DefaultTo }

\* the records a narrow table has between its first and its last
LitSample ==
    { LitRec(1, 2020, 1, 1, 1, 2), LitRec(1, 2020, 2, 2, 2, 0),
      LitRec(2, 2018, 1, 2, 1, 1), LitRec(Missing, 2020, 1, 1, 1, 1) }

\* a narrow table: the slider's default range lies within the years of every
\* table, so the first record is of 2018 and the last of 2023
LitNarrow ==
    { << LitRec(1, DefaultFrom, 1, 1, 1, a) >> \o s \o << LitRec(2, DefaultTo, 2, 1, 2, b) >> :
        a \in {0, 1}, b \in {0, 1},
        s \in UNION { [1..n -> LitSample] : n \in 0..(MaxLen - 1) } }

\* a wide table: one record per country, six decisions, three regions
LitWide(p) ==
    [i \in 1..NCountries |->
        LitRec(i, IF i % 2 = 1 THEN DefaultFrom ELSE DefaultTo, 1 + (i % 2),
               1 + (i % 3), 1 + (i % 6), WideCount(p, i))]

\* a crossed table: two countries with records of both case types, each in a
\* year the other case type has no record of
LitCross ==
    << LitRec(1, DefaultFrom, 1, 1, 1, 2), LitRec(1, DefaultTo, 2, 2, 2, 1),
       LitRec(2, DefaultFrom, 2, 1, 1, 3), LitRec(2, DefaultTo, 1, 2, 3, 0) >>

LitData == LitNarrow \cup { LitWide(p) : p \in {1, 3} } \cup { LitCross }

RECURSIVE Concat(_)
\* the rows of a sequence of tables, one table after the other
Concat(tables) ==
    IF tables = <<>> THEN <<>> ELSE Head(tables) \o Concat(Tail(tables))

\* lit_filtered_df with the year mask shifted by one row: a record is kept
\* when the record before it is within the range
lit_filtered_df_ShiftedMask(d, cs, ts, ys) ==
    LET by_country == IF cs # {} THEN IsIn(d, "country", cs) ELSE d
        by_case_type == IF ts # {} THEN IsIn(by_country, "case_type", ts)
                        ELSE by_country
        kept == { i \in 2..Len(by_case_type) :
                    by_case_type[i - 1].year >= ys[1] /\ by_case_type[i - 1].year <= ys[2] }
    IN  Concat([i \in 1..Len(by_case_type) |->
                   IF i \in kept THEN << by_case_type[i] >> ELSE <<>>])

\* filtered_df of the litigation page: the two isin filters, each applied only
\* when something is selected, then the year range
lit_filtered_df(d, cs, ts, ys) ==
    LET by_country == IF cs # {} THEN IsIn(d, "country", cs) ELSE d
        by_case_type == IF ts # {} THEN IsIn(by_country, "case_type", ts)
                        ELSE by_country
    IN  SelectSeq(by_case_type, LAMBDA r : r.year >= ys[1] /\ r.year <= ys[2])

\* rows without the row at position m
Without(rows, m) == SubSeq(rows, 1, m - 1) \o SubSeq(rows, m + 1, Len(rows))

RECURSIVE NLargest(_, _, _)
\* .nlargest(n) on the column at position col: descending, rows of equal
\* value in their order of appearance (keep='first')
NLargest(rows, n, col) ==
    IF n = 0 \/ rows = <<>> THEN <<>>
    ELSE LET m == CHOOSE i \in 1..Len(rows) :
                    /\ \A j \in 1..Len(rows) : rows[j][col] <= rows[i][col]
                    /\ \A j \in 1..(i - 1) : rows[j][col] < rows[i][col]
         IN  << rows[m] >> \o NLargest(Without(rows, m), n - 1, col)

\* grouped.groupby(k).apply(lambda x: x.nlargest(n, count)).reset_index(drop=True)
\* on rows <<k, key, sum>>: the n largest rows of each k, k ascending
NLargestPerGroup(rows, n) ==
    LET ks == SortedKeys({ rows[i][1] : i \in 1..Len(rows) })
    IN  Concat([i \in 1..Len(ks) |->
                   NLargest(SelectSeq(rows, LAMBDA r : r[1] = ks[i]), n, 3)])

\* a / b * 100 on floats, kept as the fraction 100a / b.  Nothing is raised
\* for b = 0: the fraction of denominator 0 stands for the float the division
\* gives, NaN for 0 / 0 and inf for a / 0
Percentage(a, b) == [num |-> 100 * a, den |-> b]

\* a percentage that is NaN or infinite
NotANumber(p) == p.den = 0

\* groupby([year, case_type]).sum().reset_index().pivot(index=year,
\* columns=case_type).fillna(0).sort_index(): the years and the case types
\* that occur in data, a cell for each pair, 0 where no record has the pair
pivot_df(data) ==
    [index |-> SortedKeys(Column(data, "year")),
     columns |-> Column(data, "case_type"),
     cell |-> [y \in Column(data, "year"), t \in Column(data, "case_type") |->
                  IF \E i \in 1..Len(data) : data[i].year = y /\ data[i].case_type = t
                  THEN SumCount(SelectSeq(data,
                           LAMBDA r : r.year = y /\ r.case_type = t))
                  ELSE 0]]

\* the sums at position 3 of rows <<k1, k2, sum>> regrouped by the key at
\* position pos: rows.groupby(key)[count].sum(), keys ascending
RegroupSum(rows, pos) ==
    LET ks == SortedKeys({ rows[i][pos] : i \in 1..Len(rows) })
        RECURSIVE SumAt(_)
        SumAt(rs) == IF rs = <<>> THEN 0 ELSE Head(rs)[3] + SumAt(Tail(rs))
    IN  [i \in 1..Len(ks) |->
            << ks[i], SumAt(SelectSeq(rows, LAMBDA r : r[pos] = ks[i])) >>]

\* total_counts = pivot_df.sum() read with .get(case_type, 0): the sum of the
\* column of the case type, 0 for a case type that is no column
total_counts(p, t) ==
    LET RECURSIVE Col(_)
        Col(k) == IF k = 0 THEN 0 ELSE p.cell[p.index[k], t] + Col(k - 1)
    IN  IF t \in p.columns THEN Col(Len(p.index)) ELSE 0

\* Summary with the sums per country shown as a table instead of the map
Summary_Table(f) ==
    << El("metric", "Total Litigation Count", << SumCount(f) >>),
       El("table", "country", GroupBySum(f, "country")) >>

\* the summary card and the choropleth map, drawn in every pass
Summary(f) ==
    << El("metric", "Total Litigation Count", << SumCount(f) >>),
       El("choropleth", "country", GroupBySum(f, "country")) >>

\* the composite chart of several countries and several case types, one
\* column of subplots per country (taken here in ascending order): the totals
\* per case type are read with .get(case_type, 0), the yearly bars with
\* pivot_df[case_type], which raises KeyError for a case type that is no
\* column of the pivot table; st.stop() follows the chart
Composite(f, cs, ts) ==
    LET cl == SortedKeys(cs)
        tl == SortedKeys(ts)
        df_country(c) ==
            IsIn(SelectSeq(f, LAMBDA r : r.country = c), "case_type", ts)
        Subplot(c) ==
            LET p == pivot_df(df_country(c))
            IN  [country |-> c,
                 total |-> [j \in 1..Len(tl) |-> << tl[j], total_counts(p, tl[j]) >>],
                 yearly |-> Concat([i \in 1..Len(p.index) |->
                               [j \in 1..Len(tl) |->
                                   << p.index[i], tl[j], p.cell[p.index[i], tl[j]] >>]])]
    IN  IF \E c \in cs : \E t \in ts : t \notin pivot_df(df_country(c)).columns
        THEN << El("error", "KeyError", <<>>) >>
        ELSE << El("composite", "country,year,case_type",
                   [i \in 1..Len(cl) |-> Subplot(cl[i])]) >>

\* the yearly trend, hidden when the slider holds a single year
YearlyTrend(f, cs, ts, ys) ==
    IF ys[1] # ys[2]
    THEN (IF Cardinality(cs) > 1
          THEN << El("line", "year,country", GroupBySum2(f, "year", "country")) >>
          ELSE IF Cardinality(ts) > 1
               THEN << El("line", "year,case_type", GroupBySum2(f, "year", "case_type")) >>
               ELSE << El("line", "year", GroupBySum(f, "year")) >>)
    ELSE <<>>

\* CountryView with the top 10 taken from the unsorted sums
CountryView_Unsorted(f, cs, ts, country_sorted) ==
    IF Cardinality(ts) > 1 /\ Cardinality(cs) # 1
    THEN << El("treemap", "case_type,country",
               NLargestPerGroup(GroupBySum2(f, "case_type", "country"), TopFive)) >>
    ELSE IF Cardinality(cs) # 1
         THEN << El("bar", "country", HeadN(GroupBySum(f, "country"), TopTen)) >>
         ELSE <<>>

\* the countries: top 5 per case type as a treemap, or the top 10 as a bar
CountryView(f, cs, ts, country_sorted) ==
    IF Cardinality(ts) > 1 /\ Cardinality(cs) # 1
    THEN << El("treemap", "case_type,country",
               NLargestPerGroup(GroupBySum2(f, "case_type", "country"), TopFive)) >>
    ELSE IF Cardinality(cs) # 1
         THEN << El("bar", "country", HeadN(country_sorted, TopTen)) >>
         ELSE <<>>

\* the case types: a treemap by country of the top 5 case types, or a bar
CaseTypeView(f, cs, ts, case_sorted) ==
    IF Cardinality(cs) > 1 /\ Cardinality(ts) # 1
    THEN LET case_group == GroupBySum2(f, "country", "case_type")
             top_case_types == IndexOf(NLargest(RegroupSum(case_group, 2), TopFive, 2))
         IN  << El("treemap", "country,case_type",
                   SelectSeq(case_group, LAMBDA r : r[2] \in top_case_types)) >>
    ELSE IF Cardinality(ts) # 1
         THEN << El("bar", "case_type", HeadN(case_sorted, TopTen)) >>
         ELSE <<>>

\* the regional groups: a treemap by country of the top 5 regions, a treemap
\* of the top 5 regions per case type, or a bar
RegionView(f, cs, ts, region_sorted) ==
    IF Cardinality(cs) > 1 /\ (Cardinality(ts) = 1 \/ ts = {})
    THEN LET regional_group == GroupBySum2(f, "country", "region")
             top_regions == IndexOf(NLargest(RegroupSum(regional_group, 2), TopFive, 2))
         IN  << El("treemap", "country,region",
                   SelectSeq(regional_group, LAMBDA r : r[2] \in top_regions)) >>
    ELSE IF Cardinality(ts) > 1 /\ (Cardinality(cs) = 1 \/ cs = {})
         THEN << El("treemap", "case_type,region",
                    NLargestPerGroup(GroupBySum2(f, "case_type", "region"), TopFive)) >>
         ELSE << El("bar", "region", HeadN(region_sorted, TopTen)) >>

\* DecisionScatter with every share taken of the total of the filtered table
\* instead of the total of the group
DecisionScatter_TableTotal(d, f, group) ==
    LET decision_df == GroupBySum2(f, group, "decision")
        with_percentage ==
            [i \in 1..Len(decision_df) |->
                << decision_df[i][1], decision_df[i][2], decision_df[i][3],
                   Percentage(decision_df[i][3], SumCount(f)) >>]
        top_decisions == IndexOf(NLargest(GroupBySum(f, "decision"), TopFive, 2))
        overall_decision == GroupBySum(d, "decision")
        overall_total ==
            SumCount([i \in 1..Len(overall_decision) |-> [count |-> overall_decision[i][2]]])
        overall_percentage ==
            [i \in 1..Len(overall_decision) |->
                << overall_decision[i][1], overall_decision[i][2],
                   Percentage(overall_decision[i][2], overall_total) >>]
    IN  [points |-> SelectSeq(with_percentage, LAMBDA r : r[2] \in top_decisions),
         overall |-> SelectSeq(overall_percentage, LAMBDA r : r[1] \in top_decisions)]

\* the scatter of the decision types: the share of each decision within each
\* group (country or case type) of the filtered table, and the share of each
\* decision in the whole table, both kept to the 5 largest decisions of the
\* filtered table
DecisionScatter(d, f, group) ==
    LET decision_df == GroupBySum2(f, group, "decision")
        totals(k) == RegroupSum(decision_df, 1)[
                        CHOOSE i \in 1..Len(RegroupSum(decision_df, 1)) :
                            RegroupSum(decision_df, 1)[i][1] = k][2]
        with_percentage ==
            [i \in 1..Len(decision_df) |->
                << decision_df[i][1], decision_df[i][2], decision_df[i][3],
                   Percentage(decision_df[i][3], totals(decision_df[i][1])) >>]
        top_decisions == IndexOf(NLargest(GroupBySum(f, "decision"), TopFive, 2))
        overall_decision == GroupBySum(d, "decision")
        overall_total ==
            SumCount([i \in 1..Len(overall_decision) |-> [count |-> overall_decision[i][2]]])
        overall_percentage ==
            [i \in 1..Len(overall_decision) |->
                << overall_decision[i][1], overall_decision[i][2],
                   Percentage(overall_decision[i][2], overall_total) >>]
    IN  [points |-> SelectSeq(with_percentage, LAMBDA r : r[2] \in top_decisions),
         overall |-> SelectSeq(overall_percentage, LAMBDA r : r[1] \in top_decisions)]

\* DecisionView with the scatter by country drawn only when exactly one case
\* type is selected
DecisionView_OneCaseType(d, f, cs, ts) ==
    IF Cardinality(cs) > 1 /\ Cardinality(ts) = 1
    THEN << El("scatter", "country,decision", << DecisionScatter(d, f, "country") >>) >>
    ELSE IF Cardinality(ts) > 1 /\ (Cardinality(cs) = 1 \/ cs = {})
         THEN << El("scatter", "case_type,decision",
                    << DecisionScatter(d, f, "case_type") >>) >>
         ELSE << El("pie", "decision", NLargest(GroupBySum(f, "decision"), TopFive, 2)) >>

\* the leave decisions: a scatter by country, a scatter by case type, or the
\* donut of the 5 largest decisions
DecisionView(d, f, cs, ts) ==
    IF Cardinality(cs) > 1 /\ (Cardinality(ts) = 1 \/ ts = {})
    THEN << El("scatter", "country,decision", << DecisionScatter(d, f, "country") >>) >>
    ELSE IF Cardinality(ts) > 1 /\ (Cardinality(cs) = 1 \/ cs = {})
         THEN << El("scatter", "case_type,decision",
                    << DecisionScatter(d, f, "case_type") >>) >>
         ELSE << El("pie", "decision", NLargest(GroupBySum(f, "decision"), TopFive, 2)) >>

\* one run of the litigation page from the filters to the last chart
LitScript(d, cs, ts, ys, country_sorted, case_sorted, region_sorted) ==
    LET f == lit_filtered_df(d, cs, ts, ys)
    IN  Summary(f)
        \o (IF Cardinality(cs) > 1 /\ Cardinality(ts) > 1
            THEN Composite(f, cs, ts)
            ELSE YearlyTrend(f, cs, ts, ys)
                 \o CountryView(f, cs, ts, country_sorted)
                 \o CaseTypeView(f, cs, ts, case_sorted)
                 \o RegionView(f, cs, ts, region_sorted)
                 \o DecisionView(d, f, cs, ts))

\* the sums a pass sorts, <<>> for a chart the pass does not draw
SortedSums(d, cs, ts, ys, col) ==
    LET composite == Cardinality(cs) > 1 /\ Cardinality(ts) > 1
        drawn ==
            CASE col = "country" ->
                    ~(Cardinality(ts) > 1 /\ Cardinality(cs) # 1) /\ Cardinality(cs) # 1
              [] col = "case_type" ->
                    ~(Cardinality(cs) > 1 /\ Cardinality(ts) # 1) /\ Cardinality(ts) # 1
              [] OTHER ->
                    /\ ~(Cardinality(cs) > 1 /\ (Cardinality(ts) = 1 \/ ts = {}))
                    /\ ~(Cardinality(ts) > 1 /\ (Cardinality(cs) = 1 \/ cs = {}))
    IN  IF ~composite /\ drawn
        THEN SortValuesDesc(GroupBySum(lit_filtered_df(d, cs, ts, ys), col))
        ELSE { <<>> }

\* the script of the litigation page run on the widget values
LitRun(cs, ts, ys) ==
    /\ countries' = cs
    /\ case_types' = ts
    /\ years' = ys
    /\ \E country_sorted \in SortedSums(lit_df, cs, ts, ys, "country"),
          case_sorted \in SortedSums(lit_df, cs, ts, ys, "case_type"),
          region_sorted \in SortedSums(lit_df, cs, ts, ys, "region") :
            lit_out' = LitRendered(source,
                           LitScript(lit_df, cs, ts, ys,
                                     country_sorted, case_sorted, region_sorted))
    /\ UNCHANGED lit_df

\* the user adds or removes one country of the table
LitChangeCountries ==
    \E c \in Column(lit_df, "country") \ { Missing } :
        /\ source # "country"
        /\ Cardinality(Toggle(countries, c)) <= MaxSelected
        /\ LitRun(Toggle(countries, c), case_types, years)

\* the user adds or removes one case type of the table
LitChangeCaseTypes ==
    \E t \in Column(lit_df, "case_type") :
        /\ source \notin { "country", "year", "case_type" }
        /\ Cardinality(Toggle(case_types, t)) <= MaxSelected
        /\ LitRun(countries, Toggle(case_types, t), years)

\* the user moves the year slider
LitChangeYears ==
    \E lo \in SliderStops : \E hi \in SliderStops :
        /\ lit_df # <<>>
        /\ source \notin { "country", "year" }
        /\ lo <= hi
        /\ << lo, hi >> # years
        /\ LitRun(countries, case_types, << lo, hi >>)

\* the A34 page is not open
A34Closed ==
    /\ df = <<>>
    /\ clear_filters = FALSE
    /\ selected_countries = {}
    /\ selected_years = {}
    /\ selected_inadmissibility = {}
    /\ pc = "done"
    /\ out = <<>>
    /\ prev = <<>>

a34vars == << df, clear_filters, selected_countries, selected_years,
              selected_inadmissibility, pc, out, prev >>

InitLit ==
    /\ A34Closed
    /\ source = "ok"
    /\ lit_df \in LitData
    /\ countries = {}
    /\ case_types = {}
    /\ years = << DefaultFrom, DefaultTo >>
    /\ \E country_sorted \in SortedSums(lit_df, {}, {}, years, "country"),
          case_sorted \in SortedSums(lit_df, {}, {}, years, "case_type"),
          region_sorted \in SortedSums(lit_df, {}, {}, years, "region") :
            lit_out = LitScript(lit_df, {}, {}, years,
                                country_sorted, case_sorted, region_sorted)

NextLit ==
    \/ LitChangeCountries /\ UNCHANGED << a34vars, source >>
    \/ LitChangeCaseTypes /\ UNCHANGED << a34vars, source >>
    \/ LitChangeYears /\ UNCHANGED << a34vars, source >>

SpecLit == InitLit /\ [][NextLit]_vars

\* the application (src/pages/Index.py): the navigation runs one of the pages
InitApp == Init \/ InitLit

NextApp == Next \/ NextLit

SpecApp == InitApp /\ [][NextApp]_vars

\* the filter widgets the last pass of the A34 page drew: the three
\* multiselects, once the table is not empty and their options are read
A34Widgets ==
    IF df = <<>> \/ pc # "done" \/ source \in OptionColumns THEN {}
    ELSE { "selected_countries", "selected_years", "selected_inadmissibility" }

\* the filter widgets the last pass of the litigation page drew, each drawn
\* when its column is read
LitWidgets ==
    IF lit_df = <<>> THEN {}
    ELSE CASE source = "country" -> {}
           [] source = "year" -> { "countries" }
           [] source = "case_type" -> { "countries", "years" }
           [] OTHER -> { "countries", "years", "case_types" }

\* a session on a data file of any condition: the file of the page that runs
\* is well-formed, absent, or lacks one column
InitLoad ==
    \/ /\ source \in { "ok", "absent" } \cup A34Columns
       /\ df \in (IF source = "absent" THEN { <<>> } ELSE NarrowData)
       /\ clear_filters = FALSE
       /\ selected_countries = {}
       /\ selected_years = {}
       /\ selected_inadmissibility = {}
       /\ pc = "done"
       /\ \E country_sorted \in SortValuesDesc(GroupBySum(df, "country")),
             inadmiss_sorted \in SortValuesDesc(GroupBySum(df, "inadmissibility_grounds")) :
               out = A34Rendered(source,
                         Script(df, {}, {}, {}, country_sorted, inadmiss_sorted))
       /\ prev = <<>>
       /\ LitClosed
    \/ /\ source \in { "ok", "absent" } \cup LitColumns
       /\ A34Closed
       /\ lit_df \in (IF source = "absent" THEN { <<>> } ELSE LitNarrow \cup { LitCross })
       /\ countries = {}
       /\ case_types = {}
       /\ years = << DefaultFrom, DefaultTo >>
       /\ \E country_sorted \in SortedSums(lit_df, {}, {}, years, "country"),
             case_sorted \in SortedSums(lit_df, {}, {}, years, "case_type"),
             region_sorted \in SortedSums(lit_df, {}, {}, years, "region") :
               lit_out = LitRendered(source,
                             LitScript(lit_df, {}, {}, years,
                                       country_sorted, case_sorted, region_sorted))

SpecLoad == InitLoad /\ [][NextApp]_vars

----------------------------------------------------------------------------
(* Vocabulary of the properties.  The expected values are stated over the  *)
(* loaded table and the set of its matching row numbers, not through the   *)
(* operators of the script.                                                *)

CountryActive == selected_countries # {}
YearActive == selected_years # {}
CategoryActive == selected_inadmissibility # {}

\* the row numbers of df that match the selection
Matched ==
    { i \in 1..Len(df) :
        /\ (~CountryActive \/ df[i].country \in selected_countries)
        /\ (~YearActive \/ df[i].year \in selected_years)
        /\ (~CategoryActive \/ df[i].inadmissibility_grounds \in selected_inadmissibility) }

RECURSIVE Total(_)
\* the sum of count over the rows numbered in I
Total(I) ==
    IF I = {} THEN 0
    ELSE LET i == CHOOSE j \in I : TRUE IN df[i].count + Total(I \ {i})

\* the rows numbered in I, in source order
RowsAt(I) ==
    LET RECURSIVE Upto(_)
        Upto(n) == IF n = 0 THEN <<>>
                   ELSE IF n \in I THEN Append(Upto(n - 1), df[n]) ELSE Upto(n - 1)
    IN  Upto(Len(df))

\* a pass has completed over a non-empty filtered subset
NonEmptyPass == pc = "done" /\ Matched # {}

Elements(type, by) == SelectSeq(out, LAMBDA e : e.type = type /\ e.by = by)
Emits(type, by) == Len(Elements(type, by)) = 1
Lacks(type, by) == Len(Elements(type, by)) = 0
DataOf(type, by) == Elements(type, by)[1].data
RowSet(rows) == { rows[i] : i \in 1..Len(rows) }

\* rows lists the groups of S once each
Lists(rows, S) == Len(rows) = Cardinality(S) /\ RowSet(rows) = S

MatchedCountries == { df[i].country : i \in Matched }
CountrySum(c) == Total({ i \in Matched : df[i].country = c })
PerCountry == { << c, CountrySum(c) >> : c \in MatchedCountries }
PerYear ==
    { << y, Total({ i \in Matched : df[i].year = y }) >> :
        y \in { df[i].year : i \in Matched } }
PerCategory ==
    { << g, Total({ i \in Matched : df[i].inadmissibility_grounds = g }) >> :
        g \in { df[i].inadmissibility_grounds : i \in Matched } }
PerYearCategory ==
    { << k[1], k[2], Total({ i \in Matched : df[i].year = k[1]
                               /\ df[i].inadmissibility_grounds = k[2] }) >> :
        k \in { << df[i].year, df[i].inadmissibility_grounds >> : i \in Matched } }
PerYearCountry ==
    { << k[1], k[2], Total({ i \in Matched : df[i].year = k[1]
                               /\ df[i].country = k[2] }) >> :
        k \in { << df[i].year, df[i].country >> : i \in Matched } }

\* rows is a top-n cut of the per-country sums: min(n, groups) countries with
\* their sums, none of the countries left out having a larger sum
IsTopCountries(rows, n) ==
    /\ Len(rows) = Min(n, Cardinality(MatchedCountries))
    /\ Cardinality(RowSet(rows)) = Len(rows)
    /\ RowSet(rows) \subseteq PerCountry
    /\ \A r \in RowSet(rows) : \A q \in PerCountry \ RowSet(rows) : q[2] <= r[2]

\* both resident statuses occur among the rows numbered in I
BothResidents(I) ==
    (\E i \in I : df[i].resident = PERM) /\ (\E i \in I : df[i].resident = TEMP)

\* the two values of the resident comparison over the rows numbered in I
ResidentSplit(I) ==
    << Total({ i \in I : df[i].resident = PERM }),
       Total({ i \in I : df[i].resident = TEMP }) >>

\* the subheaders that open the nine branches
BranchHeaders ==
    { "Default Overview Charts", "Complete Filter Applied",
      "Analysis for Selected Year(s) and Country(ies)",
      "Analysis for Selected Year(s) and Inadmissibility Ground(s)",
      "Yearly Trends for Selected Country(ies) and Inadmissibility Ground(s)",
      "Top Countries and Inadmissibility Grounds for years",
      "Analysis for countries", "Analysis for inadmissibility grounds",
      "General Analysis" }

\* the branches the last pass entered
BranchesTaken ==
    { out[i].by : i \in { j \in 1..Len(out) : out[j].type = "subheader" } }
        \cap BranchHeaders

\* the branch the decision table names for a combination of active dimensions
TableBranch(c, y, g) ==
    CASE ~c /\ ~y /\ ~g -> "Default Overview Charts"
      [] c /\ y /\ g -> "Complete Filter Applied"
      [] c /\ y /\ ~g -> "Analysis for Selected Year(s) and Country(ies)"
      [] ~c /\ y /\ g -> "Analysis for Selected Year(s) and Inadmissibility Ground(s)"
      [] c /\ ~y /\ g -> "Yearly Trends for Selected Country(ies) and Inadmissibility Ground(s)"
      [] ~c /\ y /\ ~g -> "Top Countries and Inadmissibility Grounds for years"
      [] c /\ ~y /\ ~g -> "Analysis for countries"
      [] ~c /\ ~y /\ g -> "Analysis for inadmissibility grounds"

----------------------------------------------------------------------------
\* C1: in a pass over a non-empty filtered subset exactly one branch is taken,
\* it is the branch the table assigns to the combination of active dimensions
\* (different combinations have different branches), and it is never the
\* "General Analysis" fallback.
C1_OneNamedBranch ==
    /\ \A a, b \in BOOLEAN \X BOOLEAN \X BOOLEAN :
          a # b => TableBranch(a[1], a[2], a[3]) # TableBranch(b[1], b[2], b[3])
    /\ NonEmptyPass =>
          /\ BranchesTaken = { TableBranch(CountryActive, YearActive, CategoryActive) }
          /\ "General Analysis" \notin BranchesTaken

\* a pass with only the category active has run the category-only branch
C1_Witness ==
    /\ NonEmptyPass
    /\ ~CountryActive /\ ~YearActive /\ CategoryActive
    /\ BranchesTaken = { "Analysis for inadmissibility grounds" }

----------------------------------------------------------------------------
(* Two passes over the same table.  prev remembers the summary of some     *)
(* earlier completed pass over a non-empty filtered subset: any one of     *)
(* them, since each step may or may not replace what is remembered.        *)

ViewTypes == { "bar", "line", "treemap", "slope", "metric" }

\* the views of the last pass, in order: chart type and grouping
Views ==
    LET charts == SelectSeq(out, LAMBDA e : e.type \in ViewTypes)
    IN  [i \in 1..Len(charts) |-> << charts[i].type, charts[i].by >>]

PassSummary ==
    [ active |-> << CountryActive, YearActive, CategoryActive >>,
      several |-> << Cardinality(selected_countries) > 1,
                     Cardinality(selected_years) > 1 >>,
      data |-> << Total(Matched) > 0, BothResidents(Matched) >>,
      branches |-> BranchesTaken,
      views |-> Views ]

Remember == NonEmptyPass /\ prev' = PassSummary

NextHist ==
    \/ Step /\ UNCHANGED << prev, litvars, source >>
    \/ Step /\ Remember /\ UNCHANGED << litvars, source >>

\* the tables of the two-pass specification: the narrow ones
InitHist == Init /\ df \in NarrowData

SpecHist == InitHist /\ [][NextHist]_vars

\* C2 as stated: two passes over the same table that activate the same subset
\* of the dimensions, both over non-empty filtered subsets, emit the same list
\* of views.
C2_AsStated ==
    (NonEmptyPass /\ prev # <<>>
        /\ prev.active = << CountryActive, YearActive, CategoryActive >>)
    => prev.views = Views

\* C2 (amended): two passes over the same table that activate the same subset
\* of the dimensions, both over non-empty filtered subsets, take the same
\* branch; they emit the same list of views when they also agree on whether
\* more than one country is selected, whether more than one year is selected,
\* whether the filtered total is positive and whether both resident statuses
\* occur in the filtered subset.
C2_ViewsByActiveSetAndGuards ==
    (NonEmptyPass /\ prev # <<>>
        /\ prev.active = << CountryActive, YearActive, CategoryActive >>)
    => /\ prev.branches = BranchesTaken
       /\ (prev.several = PassSummary.several /\ prev.data = PassSummary.data)
             => prev.views = Views

\* an earlier pass and the last one activate the same dimensions with
\* different selections, agree on the guards, and emitted the same views
C2_Witness ==
    /\ NonEmptyPass /\ prev # <<>>
    /\ prev.active = << CountryActive, YearActive, CategoryActive >>
    /\ CountryActive /\ YearActive
    /\ prev.several = PassSummary.several /\ prev.data = PassSummary.data
    /\ prev.several[1]
    /\ prev.views = Views
    /\ Cardinality(Matched) < Len(df)

----------------------------------------------------------------------------
\* C3 as stated: with only the country active and a non-empty filtered subset
\* the pass is not the overview and emits the line of sums per year, the
\* multi-line of sums per (year, category) and the treemap of the filtered
\* records.
C3_AsStated ==
    (NonEmptyPass /\ CountryActive /\ ~YearActive /\ ~CategoryActive) =>
        /\ BranchesTaken = { "Analysis for countries" }
        /\ Emits("line", "year") /\ Lists(DataOf("line", "year"), PerYear)
        /\ Emits("line", "year,inadmissibility_grounds")
        /\ Lists(DataOf("line", "year,inadmissibility_grounds"), PerYearCategory)
        /\ Emits("treemap", "country,inadmissibility_grounds")
        /\ DataOf("treemap", "country,inadmissibility_grounds") = RowsAt(Matched)

\* C3 (amended): with only the country active and a non-empty filtered subset
\* the pass is not the overview and emits the line of sums per year and the
\* multi-line of sums per (year, category); the treemap of the filtered
\* records is emitted exactly when their total count is positive.
C3_CountryOnlyBundle ==
    (NonEmptyPass /\ CountryActive /\ ~YearActive /\ ~CategoryActive) =>
        /\ BranchesTaken = { "Analysis for countries" }
        /\ Lacks("bar", "country") /\ Lacks("bar", "inadmissibility_grounds")
        /\ Emits("line", "year") /\ Lists(DataOf("line", "year"), PerYear)
        /\ Emits("line", "year,inadmissibility_grounds")
        /\ Lists(DataOf("line", "year,inadmissibility_grounds"), PerYearCategory)
        /\ IF Total(Matched) > 0
           THEN /\ Emits("treemap", "country,inadmissibility_grounds")
                /\ DataOf("treemap", "country,inadmissibility_grounds") = RowsAt(Matched)
           ELSE Lacks("treemap", "country,inadmissibility_grounds")

\* only the country is active, part of the table is filtered out, and the
\* three charts are out
C3_Witness ==
    /\ NonEmptyPass /\ CountryActive /\ ~YearActive /\ ~CategoryActive
    /\ Cardinality(Matched) > 1 /\ Cardinality(Matched) < Len(df)
    /\ Emits("line", "year")
    /\ Emits("line", "year,inadmissibility_grounds")
    /\ Emits("treemap", "country,inadmissibility_grounds")

\* C4 as stated: with only the year active and a non-empty filtered subset
\* the pass emits a treemap holding exactly the filtered records of the 5
\* countries (all, if fewer) of largest summed count.
C4_AsStated ==
    (NonEmptyPass /\ ~CountryActive /\ YearActive /\ ~CategoryActive) =>
        /\ Emits("treemap", "country,inadmissibility_grounds")
        /\ LET data == DataOf("treemap", "country,inadmissibility_grounds")
               top == { data[i].country : i \in 1..Len(data) }
           IN  /\ top \subseteq MatchedCountries
               /\ Cardinality(top) = Min(5, Cardinality(MatchedCountries))
               /\ \A c \in top : \A e \in MatchedCountries \ top :
                     CountrySum(e) <= CountrySum(c)
               /\ data = RowsAt({ i \in Matched : df[i].country \in top })

\* C4 (amended): with only the year active and a non-empty filtered subset of
\* positive total count, the pass emits a treemap holding exactly the filtered
\* records of the 5 countries (all, if fewer) of largest summed count; when
\* the total is zero no treemap is emitted.
C4_YearOnlyTreemap ==
    (NonEmptyPass /\ ~CountryActive /\ YearActive /\ ~CategoryActive) =>
        IF Total(Matched) > 0
        THEN /\ Emits("treemap", "country,inadmissibility_grounds")
             /\ LET data == DataOf("treemap", "country,inadmissibility_grounds")
                    top == { data[i].country : i \in 1..Len(data) }
                IN  /\ top \subseteq MatchedCountries
                    /\ Cardinality(top) = Min(5, Cardinality(MatchedCountries))
                    /\ \A c \in top : \A e \in MatchedCountries \ top :
                          CountrySum(e) <= CountrySum(c)
                    /\ data = RowsAt({ i \in Matched : df[i].country \in top })
        ELSE Lacks("treemap", "country,inadmissibility_grounds")

\* only the year is active, more than 5 countries match, and the treemap
\* leaves some matching records out
C4_Witness ==
    /\ NonEmptyPass /\ ~CountryActive /\ YearActive /\ ~CategoryActive
    /\ Cardinality(MatchedCountries) > 5
    /\ Emits("treemap", "country,inadmissibility_grounds")
    /\ Len(DataOf("treemap", "country,inadmissibility_grounds")) < Cardinality(Matched)

----------------------------------------------------------------------------
\* C5: with year, country and category all active and a non-empty filtered
\* subset the pass shows the total of count over exactly the filtered records
\* and one message about that same total: "found N" when it is positive,
\* "none found" when it is zero.
C5_SinglePointSummary ==
    (NonEmptyPass /\ CountryActive /\ YearActive /\ CategoryActive) =>
        /\ BranchesTaken = { "Complete Filter Applied" }
        /\ Emits("metric", "Total Refusals")
        /\ DataOf("metric", "Total Refusals") = << Total(Matched) >>
        /\ IF Total(Matched) > 0
           THEN /\ Emits("success", "found")
                /\ DataOf("success", "found") = << Total(Matched) >>
                /\ Lacks("warning", "none found")
           ELSE /\ Emits("warning", "none found")
                /\ Lacks("success", "found")

\* all three dimensions are active, several records match but not all, and
\* "found N" is out
C5_Witness ==
    /\ NonEmptyPass /\ CountryActive /\ YearActive /\ CategoryActive
    /\ Cardinality(Matched) > 1 /\ Cardinality(Matched) < Len(df)
    /\ Emits("success", "found")

\* the four overview charts over the whole table
OverviewCharts ==
    /\ BranchesTaken = { "Default Overview Charts" }
    /\ Matched = 1..Len(df)
    /\ Emits("bar", "inadmissibility_grounds")
    /\ Lists(DataOf("bar", "inadmissibility_grounds"), PerCategory)
    /\ Emits("bar", "country") /\ IsTopCountries(DataOf("bar", "country"), 10)
    /\ Emits("line", "year") /\ Lists(DataOf("line", "year"), PerYear)
    /\ Emits("line", "year,inadmissibility_grounds")
    /\ Lists(DataOf("line", "year,inadmissibility_grounds"), PerYearCategory)

\* C6 as stated: with no dimension active the pass emits, over the whole
\* table, the bar of sums per category, the bar of the top 10 countries, the
\* line of sums per year, the multi-line of sums per (year, category) and the
\* resident comparison.
C6_AsStated ==
    (NonEmptyPass /\ ~CountryActive /\ ~YearActive /\ ~CategoryActive) =>
        /\ OverviewCharts
        /\ Emits("slope", "resident")
        /\ DataOf("slope", "resident") = ResidentSplit(1..Len(df))

\* C6 (amended): with no dimension active the pass emits, over the whole
\* table, the bar of sums per category, the bar of the top 10 countries, the
\* line of sums per year and the multi-line of sums per (year, category); the
\* resident comparison is emitted when both resident statuses occur in the
\* table, and a warning takes its place when only one does.
C6_Overview ==
    (NonEmptyPass /\ ~CountryActive /\ ~YearActive /\ ~CategoryActive) =>
        /\ OverviewCharts
        /\ IF BothResidents(1..Len(df))
           THEN /\ Emits("slope", "resident")
                /\ DataOf("slope", "resident") = ResidentSplit(1..Len(df))
                /\ Lacks("warning", "resident comparison")
           ELSE /\ Lacks("slope", "resident")
                /\ Emits("warning", "resident comparison")

\* no dimension is active, the table has more than 10 countries and the
\* overview is out with 10 of them and the comparison
C6_Witness ==
    /\ NonEmptyPass /\ ~CountryActive /\ ~YearActive /\ ~CategoryActive
    /\ Cardinality(MatchedCountries) > 10
    /\ Len(DataOf("bar", "country")) = 10
    /\ Emits("slope", "resident")

\* C7: with year and country active, category inactive and a non-empty
\* filtered subset the pass emits a bar chart with one bar per category of the
\* filtered subset, its height the sum of count over the filtered records of
\* the category.
C7_CategoryBreakdown ==
    (NonEmptyPass /\ CountryActive /\ YearActive /\ ~CategoryActive) =>
        /\ BranchesTaken = { "Analysis for Selected Year(s) and Country(ies)" }
        /\ Emits("bar", "inadmissibility_grounds")
        /\ Lists(DataOf("bar", "inadmissibility_grounds"), PerCategory)

\* year and country are active, part of the table is filtered out, and the
\* bar chart has two categories, one of them summed over several records
C7_Witness ==
    /\ NonEmptyPass /\ CountryActive /\ YearActive /\ ~CategoryActive
    /\ Cardinality(Matched) < Len(df)
    /\ Emits("bar", "inadmissibility_grounds")
    /\ Len(DataOf("bar", "inadmissibility_grounds")) = 2
    /\ Cardinality(Matched) > 2

\* C8: with year and category active, country inactive and a non-empty
\* filtered subset the pass emits a bar chart of at most 10 countries, those
\* of largest summed count over the filtered subset, each with its sum.
C8_TopTenCountries ==
    (NonEmptyPass /\ ~CountryActive /\ YearActive /\ CategoryActive) =>
        /\ BranchesTaken = { "Analysis for Selected Year(s) and Inadmissibility Ground(s)" }
        /\ Emits("bar", "country")
        /\ Len(DataOf("bar", "country")) <= 10
        /\ IsTopCountries(DataOf("bar", "country"), 10)

\* year and category are active, more than 10 countries match and the bar
\* chart holds 10 of them
C8_Witness ==
    /\ NonEmptyPass /\ ~CountryActive /\ YearActive /\ CategoryActive
    /\ Cardinality(MatchedCountries) > 10
    /\ Emits("bar", "country")
    /\ Len(DataOf("bar", "country")) = 10

\* C9: with country and category active, year inactive and a non-empty
\* filtered subset the pass emits a line chart with one point per year of the
\* filtered subset, its value the sum of count over the filtered records of
\* the year.
C9_YearlyLine ==
    (NonEmptyPass /\ CountryActive /\ ~YearActive /\ CategoryActive) =>
        /\ BranchesTaken =
              { "Yearly Trends for Selected Country(ies) and Inadmissibility Ground(s)" }
        /\ Emits("line", "year")
        /\ Lists(DataOf("line", "year"), PerYear)

\* country and category are active, part of the table is filtered out, and
\* the line has two years, one of them summed over several records
C9_Witness ==
    /\ NonEmptyPass /\ CountryActive /\ ~YearActive /\ CategoryActive
    /\ Cardinality(Matched) < Len(df)
    /\ Emits("line", "year")
    /\ Len(DataOf("line", "year")) = 2
    /\ Cardinality(Matched) > 2

\* C10 as stated: with only the category active and a non-empty filtered
\* subset the pass emits the line of sums per year, the bar of the top 10
\* countries and the multi-line of the sums per (year, country) of the
\* filtered subset.
C10_AsStated ==
    (NonEmptyPass /\ ~CountryActive /\ ~YearActive /\ CategoryActive) =>
        /\ Emits("line", "year") /\ Lists(DataOf("line", "year"), PerYear)
        /\ Emits("bar", "country") /\ IsTopCountries(DataOf("bar", "country"), 10)
        /\ Emits("line", "year,country")
        /\ Lists(DataOf("line", "year,country"), PerYearCountry)

\* C10 (amended): with only the category active and a non-empty filtered
\* subset the pass emits the line of sums per year, the bar of the top 10
\* countries and the multi-line of the sums per (year, country) of the
\* filtered subset restricted to those top 10 countries.
C10_CategoryOnlyBundle ==
    (NonEmptyPass /\ ~CountryActive /\ ~YearActive /\ CategoryActive) =>
        /\ BranchesTaken = { "Analysis for inadmissibility grounds" }
        /\ Emits("line", "year") /\ Lists(DataOf("line", "year"), PerYear)
        /\ Emits("bar", "country") /\ IsTopCountries(DataOf("bar", "country"), 10)
        /\ Emits("line", "year,country")
        /\ LET top == { r[1] : r \in RowSet(DataOf("bar", "country")) }
           IN  Lists(DataOf("line", "year,country"),
                     { r \in PerYearCountry : r[2] \in top })

\* only the category is active, more than 10 countries match, and the
\* multi-line leaves the rows of a country out
C10_Witness ==
    /\ NonEmptyPass /\ ~CountryActive /\ ~YearActive /\ CategoryActive
    /\ Cardinality(MatchedCountries) > 10
    /\ Emits("line", "year,country")
    /\ Len(DataOf("line", "year,country")) < Cardinality(PerYearCountry)

----------------------------------------------------------------------------
\* the bar, line and treemap charts of the last pass, as (type, grouping)
ChartSet ==
    { << out[i].type, out[i].by >> :
        i \in { j \in 1..Len(out) : out[j].type \in { "bar", "line", "treemap" } } }

\* every bar, line and treemap chart of the last pass has its own grouping
NoChartTwice ==
    Cardinality(ChartSet) =
        Len(SelectSeq(out, LAMBDA e : e.type \in { "bar", "line", "treemap" }))

\* the charts the decision table lists for a combination of active dimensions
TableCharts(c, y, g) ==
    CASE ~c /\ ~y /\ ~g ->
            { << "bar", "inadmissibility_grounds" >>, << "bar", "country" >>,
              << "line", "year" >>, << "line", "year,inadmissibility_grounds" >> }
      [] c /\ y /\ g -> {}
      [] c /\ y /\ ~g -> { << "bar", "inadmissibility_grounds" >> }
      [] ~c /\ y /\ g -> { << "bar", "country" >> }
      [] c /\ ~y /\ g -> { << "line", "year" >> }
      [] ~c /\ y /\ ~g -> { << "treemap", "country,inadmissibility_grounds" >> }
      [] c /\ ~y /\ ~g ->
            { << "line", "year" >>, << "line", "year,inadmissibility_grounds" >>,
              << "treemap", "country,inadmissibility_grounds" >> }
      [] ~c /\ ~y /\ g ->
            { << "line", "year" >>, << "bar", "country" >>, << "line", "year,country" >> }

\* the secondary chart of the two-dimension states that have one
SecondChart ==
    IF CountryActive /\ YearActive /\ ~CategoryActive
    THEN (IF Cardinality(selected_countries) > 1 THEN { << "bar", "country" >> }
          ELSE IF Cardinality(selected_years) > 1 THEN { << "line", "year" >> }
          ELSE {})
    ELSE IF ~CountryActive /\ YearActive /\ CategoryActive
    THEN (IF Cardinality(selected_years) > 1 THEN { << "line", "year" >> }
          ELSE { << "bar", "country,inadmissibility_grounds" >> })
    ELSE {}

\* the treemap, which is not drawn over a subset of total count zero
ZeroTotalTreemap ==
    IF Total(Matched) > 0 THEN {}
    ELSE { << "treemap", "country,inadmissibility_grounds" >> }

\* C11 as stated: in a pass over a non-empty filtered subset the bar, line
\* and treemap charts emitted are exactly those the decision table lists for
\* the combination of active dimensions.
C11_AsStated ==
    NonEmptyPass => ChartSet = TableCharts(CountryActive, YearActive, CategoryActive)

\* C11 (amended): in a pass over a non-empty filtered subset the bar, line
\* and treemap charts emitted are those the decision table lists for the
\* combination of active dimensions, each once, with two departures: the
\* treemap is left out when the filtered total is zero, and the states
\* year + country and year + category add one secondary chart (year +
\* country: a bar of sums per country when more than one country is selected,
\* otherwise a line of sums per year when more than one year is selected;
\* year + category: a line of sums per year when more than one year is
\* selected, otherwise a bar of sums per (country, category)).
C11_TablePlusSecondary ==
    NonEmptyPass =>
        /\ ChartSet =
              (TableCharts(CountryActive, YearActive, CategoryActive) \ ZeroTotalTreemap)
                  \cup SecondChart
        /\ NoChartTwice

\* year and country are active with two countries selected, and the bar of
\* sums per country is out next to the bar of sums per category
C11_Witness ==
    /\ NonEmptyPass /\ CountryActive /\ YearActive /\ ~CategoryActive
    /\ Cardinality(selected_countries) > 1
    /\ SecondChart = { << "bar", "country" >> }
    /\ ChartSet = { << "bar", "inadmissibility_grounds" >>, << "bar", "country" >> }

----------------------------------------------------------------------------
\* the elements of a pass that stopped at the notice: the filter status and
\* the notice, nothing else
StoppedAtNotice(elements) ==
    /\ Len(elements) = 2
    /\ elements[1].type = "info" /\ elements[1].by = "active filters"
    /\ elements[2] = El("warning", "no data matches", <<>>)

\* C12: a pass whose filter result is empty shows the "no data matches"
\* notice and stops there: after the filter status the notice is the last
\* element, and no metric, chart or download follows.  The same holds of the
\* script run on a selection that names a country no record has (country 0
\* occurs in no table).
C12_EmptyResultStops ==
    /\ (pc = "done" /\ df # <<>> /\ Matched = {}) => StoppedAtNotice(out)
    /\ df # <<>> =>
          \A sy \in SUBSET Column(df, "year") :
              StoppedAtNotice(Script(df, { 0 }, sy, {}, <<>>, <<>>))

\* country and year are active, each selected value occurs in the table, no
\* record has the combination, and the pass stopped at the notice
C12_Witness ==
    /\ pc = "done" /\ df # <<>> /\ Matched = {}
    /\ CountryActive /\ YearActive
    /\ selected_countries \subseteq Column(df, "country")
    /\ selected_years \subseteq Column(df, "year")
    /\ Len(out) = 2 /\ out[2].by = "no data matches"

----------------------------------------------------------------------------
(* Vocabulary of the properties of the litigation page *)

\* the row numbers of lit_df that match the widgets
LitMatched ==
    { i \in 1..Len(lit_df) :
        /\ (countries = {} \/ lit_df[i].country \in countries)
        /\ (case_types = {} \/ lit_df[i].case_type \in case_types)
        /\ years[1] <= lit_df[i].year /\ lit_df[i].year <= years[2] }

\* a pass of the litigation page has run
LitPass == lit_df # <<>>

\* the types of the elements of the last pass of the litigation page
LitTypes == { lit_out[i].type : i \in 1..Len(lit_out) }

LitChartTypes == { "choropleth", "composite", "line", "bar", "treemap", "scatter", "pie" }

\* C13: a pass of the litigation page whose filtered subset is empty shows an
\* explicit "no data" notice and draws no chart.
C13_AsStated ==
    (LitPass /\ LitMatched = {}) =>
        /\ \E i \in 1..Len(lit_out) : lit_out[i].type \in { "warning", "info" }
        /\ LitTypes \cap LitChartTypes = {}

----------------------------------------------------------------------------
\* record i of df has, in every dimension with a non-empty selection, a value
\* of the selection
Accepted(i) ==
    /\ selected_countries # {} => df[i].country \in selected_countries
    /\ selected_years # {} => df[i].year \in selected_years
    /\ selected_inadmissibility # {} =>
          df[i].inadmissibility_grounds \in selected_inadmissibility

\* rows is a subsequence of df that keeps exactly the records numbered in I:
\* some increasing map of positions carries rows onto them
KeepsExactly(rows, I) ==
    /\ Len(rows) = Cardinality(I)
    /\ \A k \in 1..Len(rows) :
          \E i \in I : /\ rows[k] = df[i]
                        /\ Cardinality({ j \in I : j < i }) = k - 1

\* C14: the filtered table a pass works on (the one it offers for download)
\* keeps exactly the records of df accepted in every dimension that has a
\* non-empty selection, in the order of df; with no selection at all it is df.
C14_FilterRetainsAccepted ==
    NonEmptyPass =>
        /\ Emits("download", "filtered_df")
        /\ KeepsExactly(DataOf("download", "filtered_df"),
                        { i \in 1..Len(df) : Accepted(i) })
        /\ (selected_countries = {} /\ selected_years = {}
               /\ selected_inadmissibility = {})
              => DataOf("download", "filtered_df") = df

\* two dimensions are active, the selection of one of them holds two values,
\* and the filter keeps several records and drops others
C14_Witness ==
    /\ NonEmptyPass /\ CountryActive /\ CategoryActive /\ ~YearActive
    /\ Cardinality(selected_inadmissibility) = 2
    /\ Len(DataOf("download", "filtered_df")) > 1
    /\ Len(DataOf("download", "filtered_df")) < Len(df)

----------------------------------------------------------------------------
\* the filtered table of the A34 page and of the litigation page in the
\* current state
CurrentFiltered ==
    filtered_df(df, selected_countries, selected_years, selected_inadmissibility)
CurrentLitFiltered == lit_filtered_df(lit_df, countries, case_types, years)

----------------------------------------------------------------------------
\* the states whose comparison sits behind a test of a positive total: all
\* three dimensions active, and the year alone
BehindPositiveTotal ==
    YearActive /\ (CountryActive <=> CategoryActive)

\* C16 as stated: every pass over a non-empty filtered subset emits the
\* resident comparison, its two values the sums of count over the Permanent
\* and over the Temporary records of the subset.
C16_AsStated ==
    NonEmptyPass =>
        /\ Emits("slope", "resident")
        /\ DataOf("slope", "resident") = ResidentSplit(Matched)

\* C16 (amended): the branch of a pass is the one the table names whatever
\* the resident statuses are, and a pass over a non-empty filtered subset
\* emits the resident comparison, with the sums of count over the Permanent
\* and over the Temporary records of the subset, exactly when both statuses
\* occur in the subset and, in the states "year + country + category" and
\* "year only", the total of the subset is positive.  Where the total passes
\* and only one status occurs, a warning takes the place of the comparison.
C16_ResidentComparison ==
    NonEmptyPass =>
        /\ BranchesTaken = { TableBranch(CountryActive, YearActive, CategoryActive) }
        /\ LET reached == BehindPositiveTotal => Total(Matched) > 0
           IN  IF reached /\ BothResidents(Matched)
               THEN /\ Emits("slope", "resident")
                    /\ DataOf("slope", "resident") = ResidentSplit(Matched)
                    /\ Lacks("warning", "resident comparison")
               ELSE /\ Lacks("slope", "resident")
                    /\ IF reached THEN Emits("warning", "resident comparison")
                       ELSE Lacks("warning", "resident comparison")

\* only the category is active, part of the table is filtered out, and the
\* comparison is out with a positive sum on either side
C16_Witness ==
    /\ NonEmptyPass /\ ~CountryActive /\ ~YearActive /\ CategoryActive
    /\ Cardinality(Matched) < Len(df)
    /\ Emits("slope", "resident")
    /\ DataOf("slope", "resident")[1] > 0 /\ DataOf("slope", "resident")[2] > 0

----------------------------------------------------------------------------
RECURSIVE LitTotal(_)
\* the sum of count over the rows of lit_df numbered in I
LitTotal(I) ==
    IF I = {} THEN 0
    ELSE LET i == CHOOSE j \in I : TRUE IN lit_df[i].count + LitTotal(I \ {i})

\* the groups of the matching rows of lit_df by one column, each with its sum
LitSums(col) ==
    { << k, LitTotal({ i \in LitMatched : lit_df[i][col] = k }) >> :
        k \in { lit_df[i][col] : i \in LitMatched } \ { Missing } }

LitElements(type, by) == SelectSeq(lit_out, LAMBDA e : e.type = type /\ e.by = by)
LitEmits(type, by) == Len(LitElements(type, by)) = 1
LitDataOf(type, by) == LitElements(type, by)[1].data

\* rows is a top-n cut of the groups in sums: at most n of them (all, if
\* there are no more than n), each once with its sum, in non-increasing order
\* of the sum, no group left out having a larger sum than a group kept
IsTopCut(rows, sums, n) ==
    /\ Len(rows) <= n
    /\ Len(rows) = Min(n, Cardinality(sums))
    /\ Cardinality(RowSet(rows)) = Len(rows)
    /\ RowSet(rows) \subseteq sums
    /\ \A i \in 1..Len(rows) : \A j \in i..Len(rows) : rows[i][2] >= rows[j][2]
    /\ \A r \in RowSet(rows) : \A q \in sums \ RowSet(rows) : q[2] <= r[2]

\* C17: every top-N cut a pass shows is a top-N cut of the groups' sums over
\* the filtered table: the top-10 country bars of the A34 page, the top-5
\* countries of its year-only treemap, the top-10 bars of the litigation page
\* and the 5 largest decisions of its donut.
C17_TopCuts ==
    /\ (NonEmptyPass /\ ~CountryActive /\ Emits("bar", "country"))
          => IsTopCut(DataOf("bar", "country"), PerCountry, 10)
    /\ (NonEmptyPass /\ ~CountryActive /\ YearActive /\ ~CategoryActive
           /\ Emits("treemap", "country,inadmissibility_grounds"))
          => LET data == DataOf("treemap", "country,inadmissibility_grounds")
                 top == { data[i].country : i \in 1..Len(data) }
             IN  /\ Cardinality(top) <= 5
                 /\ Cardinality(top) = Min(5, Cardinality(MatchedCountries))
                 /\ top \subseteq MatchedCountries
                 /\ \A c \in top : \A e \in MatchedCountries \ top :
                       CountrySum(e) <= CountrySum(c)
    /\ LitPass =>
          /\ \A col \in { "country", "case_type", "region" } :
                LitEmits("bar", col) => IsTopCut(LitDataOf("bar", col), LitSums(col), 10)
          /\ LitEmits("pie", "decision")
                => IsTopCut(LitDataOf("pie", "decision"), LitSums("decision"), 5)

\* on the litigation page more than 10 countries and more than 5 decisions
\* match, and the bar holds 10 countries and the donut 5 decisions
C17_Witness ==
    /\ LitPass
    /\ Cardinality(LitSums("country")) > 10
    /\ LitEmits("bar", "country") /\ Len(LitDataOf("bar", "country")) = 10
    /\ Cardinality(LitSums("decision")) > 5
    /\ LitEmits("pie", "decision") /\ Len(LitDataOf("pie", "decision")) = 5

----------------------------------------------------------------------------
\* rows breaks the ties of the groups in sums by group key: of two groups of
\* equal sum, the one of larger key is listed only after the other
TiesByKey(rows, sums) ==
    \A j \in 1..Len(rows) : \A q \in sums :
        (q[2] = rows[j][2] /\ q[1] < rows[j][1])
            => \E i \in 1..(j - 1) : rows[i] = q

\* C18: in the top-10 country bars of the A34 page, groups of equal sum are
\* listed in group-key order, and the one of smaller key is the one kept at
\* the cutoff.
C18_AsStated ==
    (NonEmptyPass /\ ~CountryActive /\ Emits("bar", "country"))
        => TiesByKey(DataOf("bar", "country"), PerCountry)

----------------------------------------------------------------------------
RECURSIVE SumOfSums(_)
\* the sum of the group sums of an aggregation: the last entry of each row
SumOfSums(rows) ==
    IF rows = <<>> THEN 0
    ELSE Head(rows)[Len(Head(rows))] + SumOfSums(Tail(rows))

\* the aggregations a pass of the A34 page charts whole, without a cut
WholeCharts ==
    { << "bar", "inadmissibility_grounds" >>, << "line", "year" >>,
      << "line", "year,inadmissibility_grounds" >> }
        \cup (IF CountryActive THEN { << "bar", "country" >> } ELSE {})

\* the aggregations a pass of the litigation page charts whole
LitWholeCharts ==
    { << "choropleth", "country" >>, << "line", "year" >>,
      << "line", "year,country" >>, << "line", "year,case_type" >> }

\* C19: whatever the grouping, the sums of the groups add up to the total of
\* count over the table that was grouped: every aggregation a pass charts
\* whole, by one column or by two, adds up to the total of the filtered
\* table, on the A34 page and on the litigation page.
C19_AsStated ==
    /\ NonEmptyPass =>
          \A c \in WholeCharts :
              Emits(c[1], c[2]) => SumOfSums(DataOf(c[1], c[2])) = Total(Matched)
    /\ LitPass =>
          \A c \in LitWholeCharts :
              LitEmits(c[1], c[2])
                  => SumOfSums(LitDataOf(c[1], c[2])) = LitTotal(LitMatched)

----------------------------------------------------------------------------
\* the percentages the last pass of the litigation page handed to a scatter
\* chart: those of the groups and those of the whole table
ScatterPercentages ==
    UNION { { e.data[1].points[k][4] : k \in 1..Len(e.data[1].points) }
              \cup { e.data[1].overall[k][3] : k \in 1..Len(e.data[1].overall) } :
            e \in { lit_out[i] : i \in { j \in 1..Len(lit_out) :
                                            lit_out[j].type = "scatter" } } }

\* C20: no percentage handed to a chart is the result of a division by a zero
\* total: none is NaN or infinite.
C20_AsStated ==
    LitPass => \A p \in ScatterPercentages : ~NotANumber(p)

----------------------------------------------------------------------------
\* the scatter charts of the last pass of the litigation page, each with the
\* column of its groups
Scatters ==
    { << g, LitDataOf("scatter", g \o ",decision")[1] >> :
        g \in { h \in { "country", "case_type" } : LitEmits("scatter", h \o ",decision") } }

\* the matching rows of lit_df whose column col holds k
LitGroup(col, k) == { i \in LitMatched : lit_df[i][col] = k }

RECURSIVE SumNum(_)
SumNum(ps) == IF ps = <<>> THEN 0 ELSE Head(ps).num + SumNum(Tail(ps))

\* the percentages ps, fractions of one denominator, add up to 100
SumTo100(ps) ==
    /\ ps # <<>>
    /\ \A i \in 1..Len(ps) : ~NotANumber(ps[i]) /\ ps[i].den = ps[1].den
    /\ SumNum(ps) = 100 * ps[1].den

\* the percentages of the points of group k, and those of the whole table
PointPercentages(sc, k) ==
    LET ps == SelectSeq(sc.points, LAMBDA r : r[1] = k)
    IN  [i \in 1..Len(ps) |-> ps[i][4]]
OverallPercentages(sc) == [i \in 1..Len(sc.overall) |-> sc.overall[i][3]]

\* the groups and the decisions a scatter chart has points of
PointGroups(sc) == { sc.points[i][1] : i \in 1..Len(sc.points) }
PointDecisions(sc) == { sc.points[i][2] : i \in 1..Len(sc.points) }

\* C21 as stated: the percentages handed to a scatter chart add up to 100%
\* for every group of a positive total, and so do those of the whole table.
C21_AsStated ==
    LitPass =>
        \A s \in Scatters :
            /\ \A k \in PointGroups(s[2]) :
                  LitTotal(LitGroup(s[1], k)) > 0
                      => SumTo100(PointPercentages(s[2], k))
            /\ (LitTotal(1..Len(lit_df)) > 0 /\ s[2].overall # <<>>)
                  => SumTo100(OverallPercentages(s[2]))

\* C21: each percentage is the count of the group's decision divided by the
\* total of all decisions of the group in the filtered table (for the whole
\* table: of all decisions of the loaded table), taken before the chart is cut
\* to the five largest decisions of the filtered table; the percentages of a
\* group of positive total add up to 100% when none of its decisions is cut.
C21_PercentagesBeforeCut ==
    LitPass =>
        \A s \in Scatters :
            LET sc == s[2]
                D == PointDecisions(sc)
                all == LitSums("decision")
            IN  /\ Cardinality(D) = Min(5, Cardinality(all))
                /\ \A q \in all : q[1] \notin D => \A r \in all : r[1] \in D => q[2] <= r[2]
                /\ \A i \in 1..Len(sc.points) :
                      LET r == sc.points[i]
                          total == LitTotal(LitGroup(s[1], r[1]))
                      IN  /\ r[3] = LitTotal({ j \in LitGroup(s[1], r[1]) :
                                                  lit_df[j].decision = r[2] })
                          /\ total > 0 => r[4] = [num |-> 100 * r[3], den |-> total]
                /\ \A k \in PointGroups(sc) :
                      (/\ LitTotal(LitGroup(s[1], k)) > 0
                       /\ { lit_df[j].decision : j \in LitGroup(s[1], k) } \subseteq D)
                          => SumTo100(PointPercentages(sc, k))
                /\ \A i \in 1..Len(sc.overall) :
                      LET r == sc.overall[i]
                          total == LitTotal(1..Len(lit_df))
                      IN  /\ r[1] \in D
                          /\ r[2] = LitTotal({ j \in 1..Len(lit_df) : lit_df[j].decision = r[1] })
                          /\ total > 0 => r[3] = [num |-> 100 * r[2], den |-> total]

\* a scatter by case type over a table of six decisions: the smallest decision
\* is cut, the percentages of one case type add up to 100% and those of the
\* other do not
C21_Witness ==
    /\ LitPass
    /\ LitEmits("scatter", "case_type,decision")
    /\ Cardinality(LitSums("decision")) > 5
    /\ LET sc == LitDataOf("scatter", "case_type,decision")[1]
       IN  /\ \E k \in PointGroups(sc) :
                 LitTotal(LitGroup("case_type", k)) > 0 /\ SumTo100(PointPercentages(sc, k))
           /\ \E k \in PointGroups(sc) :
                 LitTotal(LitGroup("case_type", k)) > 0 /\ ~SumTo100(PointPercentages(sc, k))

----------------------------------------------------------------------------
\* the pass is one of several countries and several case types
CompositePass == LitPass /\ Cardinality(countries) > 1 /\ Cardinality(case_types) > 1

\* C22: the pivot table of each selected country has a cell for every year of
\* the country and every selected case type, holding the sum of count of the
\* records of that year and case type, 0 when there is none, also for a case
\* type the country has no record of.
C22_AsStated ==
    CompositePass =>
        /\ LitEmits("composite", "country,year,case_type")
        /\ LET subplots == LitDataOf("composite", "country,year,case_type")
           IN  \A k \in 1..Len(subplots) :
                  LET c == subplots[k].country
                      rows == LitGroup("country", c)
                  IN  \A y \in { lit_df[i].year : i \in rows } : \A t \in case_types :
                         << y, t, LitTotal({ i \in rows : lit_df[i].year = y
                                                 /\ lit_df[i].case_type = t }) >>
                             \in RowSet(subplots[k].yearly)

----------------------------------------------------------------------------
\* C23: no step of a session changes the loaded table: the filter, the
\* aggregations, the choice of the views and the export of every pass, on
\* either page, leave every record of it in place.
C23_SourceImmutable == [][df' = df /\ lit_df' = lit_df]_vars

\* a pass has filtered records out and exported the rest, and the loaded table
\* still holds the records that were filtered out
C23_Witness ==
    /\ NonEmptyPass
    /\ Emits("download", "filtered_df")
    /\ Len(DataOf("download", "filtered_df")) < Len(df)
    /\ \E i \in 1..Len(df) : i \notin Matched

----------------------------------------------------------------------------
\* the exports the last pass of the A34 page offers
Exports == SelectSeq(out, LAMBDA e : e.type = "download")

\* C24 as stated: whatever the selection, the pass offers the filtered table
\* for download, with exactly the matching records in the order of df.
C24_AsStated ==
    (pc = "done" /\ df # <<>>) =>
        /\ Len(Exports) = 1
        /\ Exports[1].data = RowsAt(Matched)

\* C24: on the A34 page, a pass over a non-empty filtered subset ends with
\* one export, whose rows are the matching records of df in the order of df,
\* whatever branch the pass took; a pass whose filtered subset is empty stops
\* at its notice and offers no export, and the litigation page offers none.
C24_ExportIsFilteredTable ==
    /\ NonEmptyPass =>
          /\ Len(Exports) = 1
          /\ out[Len(out)] = Exports[1]
          /\ Exports[1].data = RowsAt(Matched)
    /\ (pc = "done" /\ Matched = {}) => Exports = <<>>
    /\ LitPass => \A i \in 1..Len(lit_out) : lit_out[i].type # "download"

\* a pass of the country-only branch has filtered records out and offers the
\* rest, several records, for download
C24_Witness ==
    /\ NonEmptyPass
    /\ BranchesTaken = { "Analysis for countries" }
    /\ Len(Exports) = 1
    /\ Len(Exports[1].data) > 1
    /\ Len(Exports[1].data) < Len(df)

----------------------------------------------------------------------------
\* the chart types the output boundary names
BoundaryTypes == { "bar", "line", "pie", "treemap", "scatter", "table", "single-metric" }

\* the chart type of an element that is a view, by the call that draws it:
\* st.metric and the summary card are single metrics, the slope graph is a
\* go.Scatter of two points joined by a line, the composite chart is a grid of
\* go.Bar; notices, subheaders, the export and an exception are no views
ChartTypeOf(e) ==
    CASE e.type = "metric" -> "single-metric"
      [] e.type = "slope" -> "line"
      [] e.type = "composite" -> "bar"
      [] e.type \in { "info", "warning", "success", "subheader", "download", "error" } -> "none"
      [] OTHER -> e.type

\* the chart types of the views of the last pass of either page
A34ViewTypes == { ChartTypeOf(out[i]) : i \in 1..Len(out) } \ { "none" }
LitViewTypes == { ChartTypeOf(lit_out[i]) : i \in 1..Len(lit_out) } \ { "none" }

\* C25 as stated: every view of every pass has one of the chart types of the
\* output boundary.
C25_AsStated ==
    A34ViewTypes \cup LitViewTypes \subseteq BoundaryTypes

\* C25: every view of a pass of the A34 page is a single metric, a bar, a line
\* or a treemap chart; every view of a pass of the litigation page is a single
\* metric, a bar, line, pie, treemap or scatter chart or the choropleth map,
\* which every pass of that page draws, once, right after the total.
C25_ChartTypesWithMap ==
    /\ A34ViewTypes \subseteq { "single-metric", "bar", "line", "treemap" }
    /\ LitViewTypes \subseteq
          { "single-metric", "bar", "line", "pie", "treemap", "scatter", "choropleth" }
    /\ LitPass =>
          /\ lit_out[1].type = "metric"
          /\ lit_out[2].type = "choropleth"
          /\ LitEmits("choropleth", "country")

\* a pass of the litigation page with a scatter chart, a treemap, a line
\* chart and the map
C25_Witness ==
    /\ LitPass
    /\ { "single-metric", "choropleth", "line", "treemap", "scatter" } \subseteq LitViewTypes

----------------------------------------------------------------------------
\* the three stored selections
Stored == << selected_countries, selected_years, selected_inadmissibility >>

\* the defaults a pass started in the current state computes
Defaults ==
    << DefaultOf(clear_filters, selected_countries),
       DefaultOf(clear_filters, selected_years),
       DefaultOf(clear_filters, selected_inadmissibility) >>

\* C27: pressing "Clear All Filters" sets the flag, keeps what is stored and
\* restarts the pass; the restarted pass computes the empty default for the
\* three dimensions whatever is stored, resets the flag and runs the filter
\* and the views on the empty selection; the flag is FALSE in every completed
\* pass; a pass started without a press computes the stored selections as
\* its defaults.
C27_ClearProtocol ==
    /\ [][(pc = "done" /\ pc' = "rerun") => (clear_filters' /\ Stored' = Stored)]_vars
    /\ [](pc = "rerun" => (clear_filters /\ Defaults = << {}, {}, {} >>))
    /\ [][pc = "rerun" =>
             /\ pc' = "done"
             /\ ~clear_filters'
             /\ Stored' = << {}, {}, {} >>
             /\ BranchesTaken' = { "Default Overview Charts" }]_vars
    /\ [](pc = "done" => (~clear_filters /\ Defaults = Stored))

\* the button was pressed with selections stored in two dimensions: the
\* restart is pending
C27_Witness ==
    /\ pc = "rerun"
    /\ clear_filters
    /\ selected_countries # {}
    /\ selected_inadmissibility # {}

----------------------------------------------------------------------------
\* the types of the elements of the last pass of the litigation page, in order
LitTypeSeq == [i \in 1..Len(lit_out) |-> lit_out[i].type]

\* the views of the branches that follow the composite chart
LaterViews == { "line", "treemap", "bar", "scatter", "pie" }

\* C28: a pass of the litigation page with more than one country and more
\* than one case type selected shows the total, the map and the composite
\* chart and nothing else; a pass that shows a view of a later branch has at
\* most one country or at most one case type selected.
C28_AsStated ==
    /\ CompositePass => LitTypeSeq = << "metric", "choropleth", "composite" >>
    /\ (LitPass /\ LitTypes \cap LaterViews # {})
          => (Cardinality(countries) <= 1 \/ Cardinality(case_types) <= 1)

----------------------------------------------------------------------------
\* the regional-group views and the leave-decision views of the last pass of
\* the litigation page, in order, each as (type, grouping)
ViewsAbout(col) ==
    LET about == SelectSeq(lit_out, LAMBDA e :
                     e.by \in { col, "country," \o col, "case_type," \o col })
    IN  [i \in 1..Len(about) |-> << about[i].type, about[i].by >>]

\* C29: a pass of the litigation page that does not take the composite branch
\* shows exactly one regional-group view and exactly one leave-decision view,
\* both chosen by the same condition: with more than one country (and at most
\* one case type) the treemap by country and the scatter by country, with more
\* than one case type (and at most one country) the treemap by case type and
\* the scatter by case type, otherwise the regional bar chart and the donut.
C29_RegionAndDecisionPaired ==
    (LitPass /\ ~CompositePass) =>
        /\ Cardinality(countries) > 1 =>
              /\ Cardinality(case_types) <= 1
              /\ ViewsAbout("region") = << << "treemap", "country,region" >> >>
              /\ ViewsAbout("decision") = << << "scatter", "country,decision" >> >>
        /\ Cardinality(case_types) > 1 =>
              /\ Cardinality(countries) <= 1
              /\ ViewsAbout("region") = << << "treemap", "case_type,region" >> >>
              /\ ViewsAbout("decision") = << << "scatter", "case_type,decision" >> >>
        /\ (Cardinality(countries) <= 1 /\ Cardinality(case_types) <= 1) =>
              /\ ViewsAbout("region") = << << "bar", "region" >> >>
              /\ ViewsAbout("decision") = << << "pie", "decision" >> >>

\* two countries and no case type are selected: the pass shows the treemap of
\* the regions by country and the scatter of the decisions by country
C29_Witness ==
    /\ LitPass
    /\ Cardinality(countries) = 2 /\ case_types = {}
    /\ ViewsAbout("region") = << << "treemap", "country,region" >> >>
    /\ ViewsAbout("decision") = << << "scatter", "country,decision" >> >>

----------------------------------------------------------------------------
\* the metrics, the charts and the export among the elements of a pass
DashboardParts(elements) ==
    { i \in 1..Len(elements) :
        elements[i].type \notin { "info", "warning", "success", "subheader", "error" } }

\* the pass ended in an error shown to the user
Reported(elements) == elements # <<>> /\ elements[Len(elements)].type = "error"

\* C26: a pass over a data file that is absent or lacks a required column
\* ends in an error shown to the user and draws no filter widget, no metric,
\* no chart and no export.
C26_AsStated ==
    (source # "ok" /\ pc = "done") =>
        /\ Reported(out) \/ Reported(lit_out)
        /\ A34Widgets \cup LitWidgets = {}
        /\ DashboardParts(out) \cup DashboardParts(lit_out) = {}

====
